---- MODULE Spec2Model ----
(***************************************************************************)
(* Model of the RTOS task layer of the embedded simulator:                 *)
(*   - class Task (include/rtos/task.h, src/rtos/task.cpp): the task's     *)
(*     fields, its lifecycle state machine, its timing and its statistics; *)
(*   - EmbeddedSystemDemo::run (src/main.cpp): one polling thread per task *)
(*     that calls isReadyToRun() and then execute();                       *)
(*   - a client thread that calls the public mutators of Task.             *)
(*   - the creation of tasks (Task::Task, createRTOSTasks), which takes    *)
(*     the ids from the static counter next_task_id.                       *)
(* Time is the steady clock in whole ticks.  Every Task method holds       *)
(* task_mutex for its whole body; execute() holds it while the task        *)
(* function runs.                                                          *)
(***************************************************************************)
EXTENDS Integers, FiniteSets, Sequences, TLC

VARIABLES
    system_tasks,    \* task id -> the Task object (a record of its fields)
    task_mutex,      \* task id -> "free" or the thread that holds task_mutex
    pc,              \* task id -> position of the task's polling thread
    now,             \* std::chrono::steady_clock::now()
    client,          \* the client thread: idle, blocked in a call, or returned
    alive,           \* FALSE once std::terminate has ended the process
    reentered,       \* the last call a task function made on its own task
    was_terminated,  \* history: ids of the tasks whose state has been TERMINATED
    next_task_id,    \* Task::next_task_id, the static counter of the ids
    emergency_stop,  \* EmbeddedSystemDemo::emergency_stop
    device_driver,   \* the VirtualDeviceDriver object (a record of its fields)
    debug_uart       \* the UART object and the positions of its worker threads

vars == <<system_tasks, task_mutex, pc, now, client, alive, reentered,
          was_terminated, next_task_id, emergency_stop, device_driver,
          debug_uart>>

----------------------------------------------------------------------------
\* Bounds of the model.

\* The clock runs from 0 to MaxTime.
MaxTime == 2
\* No task changes its lifecycle state more than MaxSwitches times.
MaxSwitches == 5
\* Number of tasks that run() dispatches in SpecRun, and the largest number of
\* tasks that exist at a time in SpecCreate.
NumTasks == 2
\* The counter of the task ids is an int of IdBits bits (32 in the program).
IdBits == 3
\* Size of the TX FIFO and of the RX FIFO of a new UART (64 in the program).
FifoSize == 2
\* The transmission thread simulates an error on every ErrorPeriod-th byte
\* (10000 in the program).
ErrorPeriod == 3

\* Periods, relative deadlines and sleep durations the inputs are drawn from.
Periods == {1, 2}
Deadlines == {1}
SleepDurations == {1}
\* No release time is pushed beyond MaxRelease.
MaxRelease == MaxTime + 2

----------------------------------------------------------------------------
\* enum class Priority (the values the model uses), State and TaskType.

HIGH == 50
NORMAL == 100
LOW == 150
Priorities == {HIGH, NORMAL}

States == {"READY", "RUNNING", "BLOCKED", "SUSPENDED", "TERMINATED", "SLEEPING"}
TaskTypes == {"PERIODIC", "APERIODIC", "SPORADIC", "ONE_SHOT"}

Tasks == DOMAIN system_tasks

----------------------------------------------------------------------------
\* Task::Task: the object as the constructor leaves it at time t0.

NewTask(id, prio, type, period, deadline, t0) ==
    [ task_id              |-> id,
      priority             |-> prio,
      current_state        |-> "READY",
      task_type            |-> type,
      timing               |-> [period |-> period, deadline |-> deadline],
      enabled              |-> TRUE,
      delete_requested     |-> FALSE,
      next_release_time    |-> t0,
      deadline_time        |-> t0 + deadline,
      execution_start_time |-> 0,    \* a default-constructed time_point
      statistics           |-> [ executions_count     |-> 0,
                                 missed_deadlines     |-> 0,
                                 context_switches     |-> 0,
                                 total_execution_time |-> 0,
                                 max_execution_time   |-> 0,
                                 min_execution_time   |-> 0,
                                 last_execution       |-> t0 ] ]

----------------------------------------------------------------------------
\* The private helpers of Task, as functions of the object T.

setState_counts_every_call(T, new_state) ==
    [T EXCEPT !.current_state = new_state,
              !.statistics.context_switches = @ + 1]

\* Task::setState
setState(T, new_state) ==
    [T EXCEPT !.current_state = new_state,
              !.statistics.context_switches =
                  IF T.current_state # new_state THEN @ + 1 ELSE @]

updateNextReleaseTime_from_now(T) ==
    IF T.task_type = "PERIODIC"
    THEN [T EXCEPT !.next_release_time = now + T.timing.period,
                   !.deadline_time = now + T.timing.period + T.timing.deadline]
    ELSE T

\* Task::updateNextReleaseTime
updateNextReleaseTime(T) ==
    IF T.task_type = "PERIODIC"
    THEN [T EXCEPT !.next_release_time = @ + T.timing.period,
                   !.deadline_time = T.next_release_time + T.timing.period
                                     + T.timing.deadline]
    ELSE T

hasDeadlinePassed_at_the_deadline(T) == now >= T.deadline_time

\* Task::hasDeadlinePassed
hasDeadlinePassed(T) == now > T.deadline_time

\* Task::checkDeadlineMiss
checkDeadlineMiss(T) ==
    IF hasDeadlinePassed(T)
    THEN [T EXCEPT !.statistics.missed_deadlines = @ + 1]
    ELSE T

\* Task::recordExecutionStart
recordExecutionStart(T) ==
    [T EXCEPT !.execution_start_time = now,
              !.statistics.last_execution = now]

\* Task::recordExecutionEnd
recordExecutionEnd(T) ==
    LET execution_duration == now - T.execution_start_time
        S == T.statistics
    IN [T EXCEPT
          !.statistics.total_execution_time = @ + execution_duration,
          !.statistics.max_execution_time =
              IF S.executions_count = 1 THEN execution_duration
              ELSE IF execution_duration > @ THEN execution_duration ELSE @,
          !.statistics.min_execution_time =
              IF S.executions_count = 1 THEN execution_duration
              ELSE IF execution_duration < @ THEN execution_duration ELSE @]

----------------------------------------------------------------------------
\* The public methods of Task, as functions of the object T (the body that
\* runs once task_mutex is held).

isReadyToRun_before_release(T) ==
    T.enabled /\ T.current_state = "READY"

\* Task::isReadyToRun
isReadyToRun(T) ==
    IF ~T.enabled \/ T.current_state # "READY" THEN FALSE
    ELSE IF T.task_type = "PERIODIC" THEN now >= T.next_release_time
    ELSE TRUE

executeGuard_state_only(T) == T.current_state = "READY"

\* Task::execute, lines 42-44: the early return
executeGuard(T) == T.enabled /\ T.current_state = "READY"

executeBegin_without_setState(T) ==
    [recordExecutionStart(T) EXCEPT !.current_state = "RUNNING"]

\* Task::execute, lines 46-47: up to the call of the task function
executeBegin(T) == setState(recordExecutionStart(T), "RUNNING")

executeReturned_checks_after_rearm(T) ==
    LET counted == [T EXCEPT !.statistics.executions_count = @ + 1]
        rearmed == IF T.task_type = "PERIODIC"
                   THEN setState(updateNextReleaseTime(counted), "READY")
                   ELSE IF T.task_type = "ONE_SHOT"
                   THEN setState(counted, "TERMINATED")
                   ELSE setState(counted, "READY")
    IN recordExecutionEnd(checkDeadlineMiss(rearmed))

executeReturned_one_shot_rearms(T) ==
    LET counted == [T EXCEPT !.statistics.executions_count = @ + 1]
        checked == checkDeadlineMiss(counted)
        rearmed == IF T.task_type = "PERIODIC"
                   THEN setState(updateNextReleaseTime(checked), "READY")
                   ELSE setState(checked, "READY")
    IN recordExecutionEnd(rearmed)

\* Task::execute, lines 55-68 and 75: the task function has returned
executeReturned(T) ==
    LET counted == [T EXCEPT !.statistics.executions_count = @ + 1]
        checked == checkDeadlineMiss(counted)
        rearmed == IF T.task_type = "PERIODIC"
                   THEN setState(updateNextReleaseTime(checked), "READY")
                   ELSE IF T.task_type = "ONE_SHOT"
                   THEN setState(checked, "TERMINATED")
                   ELSE setState(checked, "READY")
    IN recordExecutionEnd(rearmed)

\* Task::execute, lines 55-58: the first writes after the task function
executeCounted(T) ==
    checkDeadlineMiss([T EXCEPT !.statistics.executions_count = @ + 1])

\* Task::execute, lines 60-68: the state the dispatch leaves
executeRearmed(T) ==
    IF T.task_type = "PERIODIC"
    THEN setState(updateNextReleaseTime(T), "READY")
    ELSE IF T.task_type = "ONE_SHOT"
    THEN setState(T, "TERMINATED")
    ELSE setState(T, "READY")

\* Task::execute, lines 70-75: the task function threw a std::exception
executeCaught(T) == recordExecutionEnd(setState(T, "TERMINATED"))

suspend_unchecked(T) == setState(T, "SUSPENDED")

\* Task::suspend
suspend(T) ==
    IF T.current_state = "RUNNING" THEN T ELSE setState(T, "SUSPENDED")

\* Task::resume
resume(T) ==
    IF T.current_state = "SUSPENDED" THEN setState(T, "READY") ELSE T

\* Task::terminate
terminate(T) ==
    [setState(T, "TERMINATED") EXCEPT !.enabled = FALSE,
                                      !.delete_requested = TRUE]

\* Task::sleep
sleep(T, duration) ==
    [setState(T, "SLEEPING") EXCEPT !.next_release_time = now + duration]

setPriority_unchecked(T, new_priority) == [T EXCEPT !.priority = new_priority]

\* Task::setPriority: the object, and the value returned
setPriority(T, new_priority) ==
    IF T.current_state = "RUNNING" THEN T
    ELSE [T EXCEPT !.priority = new_priority]

setPriorityResult(T, new_priority) == T.current_state # "RUNNING"

setPeriod_of_any_kind(T, new_period) ==
    updateNextReleaseTime([T EXCEPT !.timing.period = new_period])

\* Task::setPeriod: the object, and the value returned
setPeriod(T, new_period) ==
    IF T.task_type # "PERIODIC" THEN T
    ELSE updateNextReleaseTime([T EXCEPT !.timing.period = new_period])

setPeriodResult(T, new_period) == T.task_type = "PERIODIC"

----------------------------------------------------------------------------
\* Guards that keep the counters of the model finite.

\* A call that may change the lifecycle state is taken only below the cap.
CanSwitch(T, n) == T.statistics.context_switches + n <= MaxSwitches

\* A release time is advanced by period only up to MaxRelease.
CanAdvance(T, period) ==
    T.task_type = "PERIODIC" => T.next_release_time + period <= MaxRelease

----------------------------------------------------------------------------
\* The value an int of IdBits bits holds after an atomic fetch_add has taken
\* it to n: the counter wraps in two's complement.
WrapId(n) == ((n + 2^(IdBits - 1)) % 2^IdBits) - 2^(IdBits - 1)

----------------------------------------------------------------------------
\* State after construction.

Idle == [st |-> "idle"]
Blocked(op, t, arg) == [st |-> "blocked", op |-> op, task |-> t, arg |-> arg]
Returned(op, t, val) == [st |-> "returned", op |-> op, task |-> t, val |-> val]

\* VirtualDeviceDriver::VirtualDeviceDriver.  The maps are functions, the
\* maps whose values are not read are the sets of their keys.  handed_out is
\* history: the file descriptors openDevice has returned.  The counters of
\* the statistics and of the major numbers are left out: nothing reads them
\* but the reports.
NewDriver ==
    [driver_loaded |-> FALSE,
     device_registry |-> [n \in {} |-> 0],
     fd_to_device_map |-> [fd \in {} |-> 0],
     next_file_descriptor |-> WrapId(1000),
     irq_handlers |-> {},
     irq_enabled |-> [fd \in {} |-> FALSE],
     device_memory |-> {},
     driver_mutex |-> "free",
     handed_out |-> {}]

\* UART::UART.  tx_pc and rx_pc are the positions of the transmission thread
\* and of the reception thread, byte is the byte the transmission thread has
\* taken from the TX FIFO, error_counter is the static counter of
\* transmissionLoop modulo ErrorPeriod.  tx_enabled is true and never written.
NewUART ==
    [initialized |-> FALSE,
     tx_fifo |-> <<>>,
     rx_fifo |-> <<>>,
     config |-> [tx_fifo_size |-> FifoSize, rx_fifo_size |-> FifoSize,
                 mode |-> "RS232"],
     tx_running |-> FALSE,
     rx_running |-> FALSE,
     uart_mutex |-> "free",
     tx_pc |-> "unstarted",
     rx_pc |-> "unstarted",
     byte |-> 0,
     error_counter |-> 0]

\* The threads of the tasks ids, the clock and the client thread.
InitTaskThreads(ids) ==
    /\ task_mutex = [t \in ids |-> "free"]
    /\ pc = [t \in ids |-> "poll"]
    /\ now = 0
    /\ client = Idle
    /\ alive = TRUE
    /\ reentered = Idle
    /\ was_terminated = {}
    /\ next_task_id = WrapId(Cardinality(ids) + 1)
    /\ emergency_stop = FALSE

InitThreads(ids) ==
    /\ InitTaskThreads(ids)
    /\ device_driver = NewDriver
    /\ debug_uart = NewUART

\* One Task of any kind, its polling thread and the client thread.
Init ==
    /\ \E prio \in Priorities, type \in TaskTypes,
          period \in Periods, deadline \in Deadlines :
          system_tasks = [t \in {1} |-> NewTask(t, prio, type, period, deadline, 0)]
    /\ InitThreads({1})

----------------------------------------------------------------------------
\* Task t becomes the object T; the history records a TERMINATED state.
Update(t, T) ==
    /\ system_tasks' = [system_tasks EXCEPT ![t] = T]
    /\ was_terminated' = was_terminated \cup
                         (IF T.current_state = "TERMINATED" THEN {t} ELSE {})

----------------------------------------------------------------------------
\* The polling thread of task t (EmbeddedSystemDemo::run, lines 260-268).

\* while (system_running.load() && !emergency_stop.load())
\*     if (task->isReadyToRun())
Poll(t) ==
    /\ alive /\ pc[t] = "poll"
    /\ IF emergency_stop
       THEN pc' = [pc EXCEPT ![t] = "left"]
       ELSE /\ task_mutex[t] = "free"
            /\ pc' = [pc EXCEPT ![t] = IF isReadyToRun(system_tasks[t])
                                       THEN "execute" ELSE "poll"]
    /\ UNCHANGED <<system_tasks, task_mutex, now, client, alive, reentered,
                   was_terminated, next_task_id, emergency_stop, device_driver, debug_uart>>

\* task->execute(): lock, the early return, or the start of the task function
ExecuteEnter(t) ==
    /\ alive /\ pc[t] = "execute" /\ task_mutex[t] = "free"
    /\ IF executeGuard(system_tasks[t])
       THEN /\ CanSwitch(system_tasks[t], 2)
            /\ CanAdvance(system_tasks[t], system_tasks[t].timing.period)
            /\ Update(t, executeBegin(system_tasks[t]))
            /\ task_mutex' = [task_mutex EXCEPT ![t] = "dispatcher"]
            /\ pc' = [pc EXCEPT ![t] = "closure"]
       ELSE /\ pc' = [pc EXCEPT ![t] = "poll"]
            /\ UNCHANGED <<system_tasks, task_mutex, was_terminated>>
    /\ UNCHANGED <<now, client, alive, reentered, next_task_id,
                   emergency_stop, device_driver, debug_uart>>

\* the task function returns
ClosureReturns(t) ==
    /\ alive /\ pc[t] = "closure"
    /\ Update(t, executeReturned(system_tasks[t]))
    /\ task_mutex' = [task_mutex EXCEPT ![t] = "free"]
    /\ pc' = [pc EXCEPT ![t] = "poll"]
    /\ UNCHANGED <<now, client, alive, reentered, next_task_id,
                   emergency_stop, device_driver, debug_uart>>

\* the task function throws a std::exception
ClosureThrows(t) ==
    /\ alive /\ pc[t] = "closure"
    /\ Update(t, executeCaught(system_tasks[t]))
    /\ task_mutex' = [task_mutex EXCEPT ![t] = "free"]
    /\ pc' = [pc EXCEPT ![t] = "poll"]
    /\ UNCHANGED <<now, client, alive, reentered, next_task_id,
                   emergency_stop, device_driver, debug_uart>>

\* the task function throws something that is no std::exception: nothing in
\* execute() or in the thread catches it, and std::terminate ends the process
ClosureThrowsOther(t) ==
    /\ alive /\ pc[t] = "closure"
    /\ alive' = FALSE
    /\ UNCHANGED <<system_tasks, task_mutex, pc, now, client, reentered,
                   was_terminated, next_task_id, emergency_stop, device_driver, debug_uart>>

\* the steady clock advances
Tick ==
    /\ alive /\ now < MaxTime
    /\ now' = now + 1
    /\ UNCHANGED <<system_tasks, task_mutex, pc, client, alive, reentered,
                   was_terminated, next_task_id, emergency_stop, device_driver, debug_uart>>

----------------------------------------------------------------------------
\* The client thread: calls of the public mutators of task t.

CanCall_without_lock(op, t, arg) ==
    /\ alive
    /\ client.st = "blocked" => client = Blocked(op, t, arg)

\* The client may start (or, when it was blocked in this very call, finish)
\* the call op(arg) on task t: it takes task_mutex.
CanCall(op, t, arg) ==
    /\ alive /\ task_mutex[t] = "free"
    /\ client.st = "blocked" => client = Blocked(op, t, arg)

\* The call finds task_mutex held and waits for it.  (A client that is inside
\* the task function or inside getCPUUtilization() makes no other call before
\* it returns.)
CallBlocks(op, t, arg) ==
    /\ alive /\ task_mutex[t] # "free"
    /\ client.st \notin {"blocked", "inside", "relock"}
    /\ client' = Blocked(op, t, arg)
    /\ UNCHANGED <<system_tasks, task_mutex, pc, now, alive, reentered,
                   was_terminated, next_task_id, emergency_stop, device_driver, debug_uart>>

CallSuspend(t) ==
    /\ CanCall("suspend", t, 0) /\ CanSwitch(system_tasks[t], 1)
    /\ Update(t, suspend(system_tasks[t]))
    /\ client' = Returned("suspend", t, TRUE)
    /\ UNCHANGED <<task_mutex, pc, now, alive, reentered, next_task_id,
                   emergency_stop, device_driver, debug_uart>>

CallResume(t) ==
    /\ CanCall("resume", t, 0) /\ CanSwitch(system_tasks[t], 1)
    /\ Update(t, resume(system_tasks[t]))
    /\ client' = Returned("resume", t, TRUE)
    /\ UNCHANGED <<task_mutex, pc, now, alive, reentered, next_task_id,
                   emergency_stop, device_driver, debug_uart>>

CallTerminate(t) ==
    /\ CanCall("terminate", t, 0) /\ CanSwitch(system_tasks[t], 1)
    /\ Update(t, terminate(system_tasks[t]))
    /\ client' = Returned("terminate", t, TRUE)
    /\ UNCHANGED <<task_mutex, pc, now, alive, reentered, next_task_id,
                   emergency_stop, device_driver, debug_uart>>

CallSleep(t, duration) ==
    /\ CanCall("sleep", t, duration) /\ CanSwitch(system_tasks[t], 1)
    /\ Update(t, sleep(system_tasks[t], duration))
    /\ client' = Returned("sleep", t, TRUE)
    /\ UNCHANGED <<task_mutex, pc, now, alive, reentered, next_task_id,
                   emergency_stop, device_driver, debug_uart>>

CallSetPriority(t, new_priority) ==
    /\ CanCall("setPriority", t, new_priority)
    /\ Update(t, setPriority(system_tasks[t], new_priority))
    /\ client' = Returned("setPriority", t,
                          setPriorityResult(system_tasks[t], new_priority))
    /\ UNCHANGED <<task_mutex, pc, now, alive, reentered, next_task_id,
                   emergency_stop, device_driver, debug_uart>>

CallSetPeriod(t, new_period) ==
    /\ CanCall("setPeriod", t, new_period)
    /\ CanAdvance(system_tasks[t], new_period)
    /\ Update(t, setPeriod(system_tasks[t], new_period))
    /\ client' = Returned("setPeriod", t,
                          setPeriodResult(system_tasks[t], new_period))
    /\ UNCHANGED <<task_mutex, pc, now, alive, reentered, next_task_id,
                   emergency_stop, device_driver, debug_uart>>

----------------------------------------------------------------------------
\* Specifications.

Next ==
    \/ Tick
    \/ \E t \in Tasks : Poll(t)
    \/ \E t \in Tasks : ExecuteEnter(t)
    \/ \E t \in Tasks : ClosureReturns(t)
    \/ \E t \in Tasks : ClosureThrows(t)
    \/ \E t \in Tasks : ClosureThrowsOther(t)
    \/ \E t \in Tasks : CallSuspend(t)
    \/ \E t \in Tasks : CallResume(t)
    \/ \E t \in Tasks : CallTerminate(t)
    \/ \E t \in Tasks, d \in SleepDurations : CallSleep(t, d)
    \/ \E t \in Tasks, p \in Priorities : CallSetPriority(t, p)
    \/ \E t \in Tasks, p \in Periods : CallSetPeriod(t, p)
    \/ \E t \in Tasks, op \in {"suspend", "resume", "terminate"} :
           CallBlocks(op, t, 0)
    \/ \E t \in Tasks, d \in SleepDurations : CallBlocks("sleep", t, d)
    \/ \E t \in Tasks, p \in Priorities : CallBlocks("setPriority", t, p)
    \/ \E t \in Tasks, p \in Periods : CallBlocks("setPeriod", t, p)

\* One task, its polling thread, the client thread and the clock.
Spec == Init /\ [][Next]_vars

----------------------------------------------------------------------------
\* A second thread that calls execute() on the task, next to the polling
\* thread of the task and to the calls of the mutators.

\* The client thread is inside the task function of task t.
Inside(t) == [st |-> "inside", op |-> "execute", task |-> t]

\* execute() called by the client: lock, the early return, or the start of
\* the task function
CallExecute(t) ==
    /\ CanCall("execute", t, 0)
    /\ IF executeGuard(system_tasks[t])
       THEN /\ CanSwitch(system_tasks[t], 2)
            /\ CanAdvance(system_tasks[t], system_tasks[t].timing.period)
            /\ Update(t, executeBegin(system_tasks[t]))
            /\ task_mutex' = [task_mutex EXCEPT ![t] = "client"]
            /\ client' = Inside(t)
       ELSE /\ client' = Returned("execute", t, FALSE)
            /\ UNCHANGED <<system_tasks, task_mutex, was_terminated>>
    /\ UNCHANGED <<pc, now, alive, reentered, next_task_id,
                   emergency_stop, device_driver, debug_uart>>

\* the task function that the client's execute() called returns
CallExecuteReturns(t) ==
    /\ alive /\ client = Inside(t)
    /\ Update(t, executeReturned(system_tasks[t]))
    /\ task_mutex' = [task_mutex EXCEPT ![t] = "free"]
    /\ client' = Returned("execute", t, TRUE)
    /\ UNCHANGED <<pc, now, alive, reentered, next_task_id,
                   emergency_stop, device_driver, debug_uart>>

\* the task function that the client's execute() called throws a
\* std::exception
CallExecuteThrows(t) ==
    /\ alive /\ client = Inside(t)
    /\ Update(t, executeCaught(system_tasks[t]))
    /\ task_mutex' = [task_mutex EXCEPT ![t] = "free"]
    /\ client' = Returned("execute", t, TRUE)
    /\ UNCHANGED <<pc, now, alive, reentered, next_task_id,
                   emergency_stop, device_driver, debug_uart>>

NextExclusive ==
    \/ Next
    \/ \E t \in Tasks : CallExecute(t)
    \/ \E t \in Tasks : CallExecuteReturns(t)
    \/ \E t \in Tasks : CallExecuteThrows(t)
    \/ \E t \in Tasks : CallBlocks("execute", t, 0)

\* One task, its polling thread, and a thread that calls execute() and the
\* mutators.
SpecExclusive == Init /\ [][NextExclusive]_vars

----------------------------------------------------------------------------
\* The accessors of the statistics.  A double is the fraction <<n, d>>.

\* Task::getAverageExecutionTime
getAverageExecutionTime(T) ==
    IF T.statistics.executions_count = 0 THEN <<0, 1>>
    ELSE <<T.statistics.total_execution_time, T.statistics.executions_count>>

\* Task::getCPUUtilization, line 231: the early return
getCPUUtilizationGuard(T) ==
    T.task_type # "PERIODIC" \/ T.statistics.executions_count = 0

\* Task::getCPUUtilization: the value returned
getCPUUtilization(T) ==
    IF getCPUUtilizationGuard(T) THEN <<0, 1>>
    ELSE LET avg == getAverageExecutionTime(T)
         IN <<avg[1] * 100, avg[2] * 1000 * T.timing.period>>

\* The client thread holds task_mutex of task t in getCPUUtilization() and
\* calls getAverageExecutionTime(), which locks task_mutex.
Relock(t) == [st |-> "relock", op |-> "getCPUUtilization", task |-> t]

\* getCPUUtilization() called by the client: lock, and the early return or
\* the call of getAverageExecutionTime()
CallGetCPUUtilization(t) ==
    /\ CanCall("getCPUUtilization", t, 0)
    /\ IF getCPUUtilizationGuard(system_tasks[t])
       THEN /\ client' = Returned("getCPUUtilization", t,
                                  getCPUUtilization(system_tasks[t]))
            /\ UNCHANGED task_mutex
       ELSE /\ client' = Relock(t)
            /\ task_mutex' = [task_mutex EXCEPT ![t] = "client"]
    /\ UNCHANGED <<system_tasks, pc, now, alive, reentered, was_terminated,
                   next_task_id,
                   emergency_stop, device_driver, debug_uart>>

\* Locking the std::mutex that the thread holds is undefined behaviour: the
\* thread waits for ever for its own lock,
RelockDeadlocks(t) ==
    /\ alive /\ client = Relock(t)
    /\ client' = Blocked("getAverageExecutionTime", t, 0)
    /\ UNCHANGED <<system_tasks, task_mutex, pc, now, alive, reentered,
                   was_terminated, next_task_id, emergency_stop, device_driver, debug_uart>>

\* or the lock throws a std::system_error, which leaves getCPUUtilization()
\* and releases the lock,
RelockThrows(t) ==
    /\ alive /\ client = Relock(t)
    /\ client' = Returned("getCPUUtilization", t, "system_error")
    /\ task_mutex' = [task_mutex EXCEPT ![t] = "free"]
    /\ UNCHANGED <<system_tasks, pc, now, alive, reentered, was_terminated,
                   next_task_id,
                   emergency_stop, device_driver, debug_uart>>

\* or the lock is granted and both calls return.
RelockGranted(t) ==
    /\ alive /\ client = Relock(t)
    /\ client' = Returned("getCPUUtilization", t,
                          getCPUUtilization(system_tasks[t]))
    /\ task_mutex' = [task_mutex EXCEPT ![t] = "free"]
    /\ UNCHANGED <<system_tasks, pc, now, alive, reentered, was_terminated,
                   next_task_id,
                   emergency_stop, device_driver, debug_uart>>

NextUtilization ==
    \/ Tick
    \/ \E t \in Tasks : Poll(t)
    \/ \E t \in Tasks : ExecuteEnter(t)
    \/ \E t \in Tasks : ClosureReturns(t)
    \/ \E t \in Tasks : CallGetCPUUtilization(t)
    \/ \E t \in Tasks : RelockDeadlocks(t)
    \/ \E t \in Tasks : RelockThrows(t)
    \/ \E t \in Tasks : RelockGranted(t)
    \/ \E t \in Tasks : CallBlocks("getCPUUtilization", t, 0)

\* One task, its polling thread and a thread that calls getCPUUtilization().
SpecUtilization == Init /\ [][NextUtilization]_vars

----------------------------------------------------------------------------
\* EmbeddedSystemDemo::run: the tasks of createRTOSTasks, one polling thread
\* each, and nothing else that calls into a task.

\* The priorities createRTOSTasks gives its tasks, in the order it creates them.
RunPriority(i) ==
    CASE i % 4 = 1 -> HIGH
      [] i % 4 = 2 -> NORMAL
      [] i % 4 = 3 -> LOW
      [] OTHER     -> NORMAL

InitRun ==
    /\ \E period \in [1..NumTasks -> Periods],
          deadline \in [1..NumTasks -> Deadlines] :
          system_tasks = [t \in 1..NumTasks |->
              NewTask(t, RunPriority(t), "PERIODIC", period[t], deadline[t], 0)]
    /\ InitThreads(1..NumTasks)

NextRun ==
    \/ Tick
    \/ \E t \in Tasks : Poll(t)
    \/ \E t \in Tasks : ExecuteEnter(t)
    \/ \E t \in Tasks : ClosureReturns(t)
    \/ \E t \in Tasks : ClosureThrows(t)
    \/ \E t \in Tasks : ClosureThrowsOther(t)

SpecRun == InitRun /\ [][NextRun]_vars

----------------------------------------------------------------------------
\* One task of any kind driven by its polling thread alone: no other thread
\* calls into it.

NextDispatch ==
    \/ Tick
    \/ \E t \in Tasks : Poll(t)
    \/ \E t \in Tasks : ExecuteEnter(t)
    \/ \E t \in Tasks : ClosureReturns(t)
    \/ \E t \in Tasks : ClosureThrows(t)
    \/ \E t \in Tasks : ClosureThrowsOther(t)

SpecDispatch == Init /\ [][NextDispatch]_vars

----------------------------------------------------------------------------
\* The emergency stop.  The handler of the button sets emergency_stop; the
\* polling threads and the main loop of run() leave their loops when they
\* see it; run() joins the polling threads and calls shutdown().  The task
\* function of the system monitor calls shutdown() as well when it sees the
\* flag.  shutdown() calls printFinalStatistics(), which calls
\* getAverageExecutionTime() and getCPUUtilization() of every task in the
\* order of system_tasks.  The position of the main thread is client, the
\* position of the monitor's task function is reentered.

\* The system monitor is the third task createRTOSTasks creates.
MonitorTask == 3

InitEmergency ==
    /\ \E period \in Periods, deadline \in Deadlines :
          system_tasks = [t \in 1..MonitorTask |->
              NewTask(t, RunPriority(t), "PERIODIC", period, deadline, 0)]
    /\ InitThreads(1..MonitorTask)

\* the handler of the button: emergency_stop = true
SetEmergencyStop ==
    /\ alive /\ ~emergency_stop
    /\ emergency_stop' = TRUE
    /\ UNCHANGED <<system_tasks, task_mutex, pc, now, client, alive,
                   reentered, was_terminated, next_task_id, device_driver,
                   debug_uart>>

\* printFinalStatistics is about to call op on task i.
Walk(i, op) == [st |-> "walk", op |-> op, task |-> i]
\* getCPUUtilization of task i holds task_mutex and calls
\* getAverageExecutionTime.
WalkRelock(i) == [st |-> "relock", op |-> "getCPUUtilization", task |-> i]
\* A lock of task_mutex has thrown a std::system_error.
Thrown == [st |-> "thrown"]
\* shutdown() has returned.
ShutdownDone == [st |-> "done"]

\* The position after the statistics of task i have been printed.
WalkNext(i) ==
    IF i + 1 \in Tasks THEN Walk(i + 1, "getAverageExecutionTime")
    ELSE ShutdownDone

\* One step of printFinalStatistics on the thread me, which holds the
\* task_mutex of the tasks in own because it is inside their execute(): W is
\* its position, W2 its next position and M2 the next task_mutex.  A lock
\* held by another thread is waited for.  Locking a task_mutex that the
\* thread holds itself is undefined behaviour: the thread waits for ever,
\* or the lock throws, or it is granted.
WalkStep(me, own, W, W2, M2) ==
    LET i == W.task
        T == system_tasks[i]
        Undefined(granted, M) ==
            \/ W2 = Blocked(W.op, i, 0) /\ M2 = task_mutex
            \/ W2 = Thrown /\ M2 = M
            \/ W2 = granted /\ M2 = M
        Released == [task_mutex EXCEPT ![i] = "free"]
    IN \/ /\ W = Walk(i, "getAverageExecutionTime")
          /\ IF i \in own
             THEN Undefined(Walk(i, "getCPUUtilization"), task_mutex)
             ELSE /\ task_mutex[i] = "free"
                  /\ W2 = Walk(i, "getCPUUtilization")
                  /\ M2 = task_mutex
       \/ /\ W = Walk(i, "getCPUUtilization")
          /\ IF i \in own
             THEN Undefined(WalkNext(i), task_mutex)
             ELSE /\ task_mutex[i] = "free"
                  /\ IF getCPUUtilizationGuard(T)
                     THEN W2 = WalkNext(i) /\ M2 = task_mutex
                     ELSE /\ W2 = WalkRelock(i)
                          /\ M2 = [task_mutex EXCEPT ![i] = me]
       \/ /\ W = WalkRelock(i)
          /\ Undefined(WalkNext(i), Released)

\* The task function of the system monitor sees emergency_stop and calls
\* shutdown().
MonitorShutdown ==
    /\ alive /\ pc[MonitorTask] = "closure" /\ reentered = Idle
    /\ emergency_stop
    /\ reentered' = Walk(1, "getAverageExecutionTime")
    /\ UNCHANGED <<system_tasks, task_mutex, pc, now, client, alive,
                   was_terminated, next_task_id, emergency_stop, device_driver, debug_uart>>

\* shutdown() called by the task function of the system monitor
MonitorWalks ==
    /\ alive /\ pc[MonitorTask] = "closure"
    /\ reentered.st \in {"walk", "relock"}
    /\ \E W2 \in {Blocked(reentered.op, reentered.task, 0), Thrown,
                  ShutdownDone, WalkRelock(reentered.task),
                  Walk(reentered.task, "getCPUUtilization"),
                  WalkNext(reentered.task)} :
          \E M2 \in {task_mutex,
                        [task_mutex EXCEPT ![reentered.task] = "free"],
                        [task_mutex EXCEPT ![reentered.task] = "monitor"]} :
                /\ WalkStep("monitor", {MonitorTask}, reentered, W2, M2)
                /\ reentered' = W2
                /\ task_mutex' = M2
    /\ UNCHANGED <<system_tasks, pc, now, client, alive, was_terminated,
                   next_task_id, emergency_stop, device_driver, debug_uart>>

\* The task function of a task returns; that of the system monitor returns
\* when it has not seen emergency_stop or when shutdown() has returned.
EmergencyReturns(t) ==
    /\ t = MonitorTask =>
          \/ reentered = Idle /\ ~emergency_stop
          \/ reentered = ShutdownDone
    /\ ClosureReturns(t)

\* The std::system_error leaves shutdown() and the task function of the
\* system monitor, and execute() catches it.
MonitorThrows ==
    /\ reentered = Thrown
    /\ ClosureThrows(MonitorTask)

\* run(), lines 287-293: the main loop sees emergency_stop
MainSeesStop ==
    /\ alive /\ client = Idle /\ emergency_stop
    /\ client' = [st |-> "joining"]
    /\ UNCHANGED <<system_tasks, task_mutex, pc, now, alive, reentered,
                   was_terminated, next_task_id, emergency_stop, device_driver, debug_uart>>

\* run(), lines 296-307: the polling threads are joined; shutdown()
MainJoins ==
    /\ alive /\ client = [st |-> "joining"]
    /\ \A t \in Tasks : pc[t] = "left"
    /\ client' = Walk(1, "getAverageExecutionTime")
    /\ UNCHANGED <<system_tasks, task_mutex, pc, now, alive, reentered,
                   was_terminated, next_task_id, emergency_stop, device_driver, debug_uart>>

\* shutdown() called by run()
MainWalks ==
    /\ alive
    /\ client.st \in {"walk", "relock"}
    /\ \E W2 \in {Blocked(client.op, client.task, 0), Thrown,
                  ShutdownDone, WalkRelock(client.task),
                  Walk(client.task, "getCPUUtilization"),
                  WalkNext(client.task)} :
          \E M2 \in {task_mutex,
                        [task_mutex EXCEPT ![client.task] = "free"],
                        [task_mutex EXCEPT ![client.task] = "client"]} :
                /\ WalkStep("client", {}, client, W2, M2)
                /\ client' = IF W2 = Thrown
                             THEN Returned("run", 0, "system_error")
                             ELSE IF W2 = ShutdownDone
                             THEN Returned("run", 0, TRUE)
                             ELSE W2
                /\ task_mutex' = M2
    /\ UNCHANGED <<system_tasks, pc, now, alive, reentered, was_terminated,
                   next_task_id, emergency_stop, device_driver, debug_uart>>

NextEmergency ==
    \/ Tick
    \/ \E t \in Tasks : Poll(t)
    \/ \E t \in Tasks : ExecuteEnter(t)
    \/ \E t \in Tasks : EmergencyReturns(t)
    \/ SetEmergencyStop
    \/ MonitorShutdown
    \/ MonitorWalks
    \/ MonitorThrows
    \/ MainSeesStop
    \/ MainJoins
    \/ MainWalks

SpecEmergency == InitEmergency /\ [][NextEmergency]_vars

----------------------------------------------------------------------------
\* The virtual device driver.  Every public method holds driver_mutex for
\* its whole body, so the calls of all threads are the calls of the client
\* thread in some order.  The methods are functions of the object D.

DeviceNames == {"status_led", "user_button"}
DeviceTypes == {"LED_DEVICE", "GENERIC_DEVICE"}

\* The values of an int.
Ints == {WrapId(n) : n \in 0..(2^IdBits - 1)}

\* The map f with key k set to v, and without key k.
MapPut(f, k, v) == [x \in DOMAIN f \cup {k} |-> IF x = k THEN v ELSE f[x]]
MapErase(f, k) == [x \in DOMAIN f \ {k} |-> f[x]]

\* VirtualDeviceDriver::isValidFileDescriptor
isValidFileDescriptor(D, fd) == fd \in DOMAIN D.fd_to_device_map

\* VirtualDeviceDriver::loadDriver (the directory exists or is created)
loadDriver(D) == [D EXCEPT !.driver_loaded = TRUE]

\* VirtualDeviceDriver::unloadDriver
unloadDriver(D) ==
    IF ~D.driver_loaded THEN D
    ELSE [D EXCEPT !.device_registry = [n \in {} |-> 0],
                   !.fd_to_device_map = [fd \in {} |-> 0],
                   !.irq_handlers = {},
                   !.irq_enabled = [fd \in {} |-> FALSE],
                   !.device_memory = {},
                   !.driver_loaded = FALSE]

\* VirtualDeviceDriver::registerDevice: the value returned and the object
registerDeviceResult(D, name) ==
    D.driver_loaded /\ name \notin DOMAIN D.device_registry

registerDevice(D, name, type) ==
    IF ~registerDeviceResult(D, name) THEN D
    ELSE [D EXCEPT !.device_registry =
             MapPut(@, name, [state |-> "INITIALIZED",
                              type |-> type,
                              supports_irq |-> type # "GENERIC_DEVICE"])]

\* VirtualDeviceDriver::unregisterDevice
unregisterDeviceResult(D, name) ==
    /\ name \in DOMAIN D.device_registry
    /\ D.device_registry[name].state # "OPENED"

unregisterDevice(D, name) ==
    IF ~unregisterDeviceResult(D, name) THEN D
    ELSE [D EXCEPT !.device_registry = MapErase(@, name)]

\* VirtualDeviceDriver::openDevice: the value returned and the object
openDeviceResult(D, name) ==
    IF /\ D.driver_loaded
       /\ name \in DOMAIN D.device_registry
       /\ D.device_registry[name].state = "INITIALIZED"
    THEN D.next_file_descriptor
    ELSE -1

openDevice(D, name) ==
    IF ~( /\ D.driver_loaded
          /\ name \in DOMAIN D.device_registry
          /\ D.device_registry[name].state = "INITIALIZED" )
    THEN D
    ELSE LET fd == D.next_file_descriptor
         IN [D EXCEPT !.next_file_descriptor = WrapId(fd + 1),
                      !.device_registry[name].state = "OPENED",
                      !.fd_to_device_map = MapPut(@, fd, name),
                      !.device_memory = @ \cup {fd},
                      !.handed_out = @ \cup {fd}]

\* VirtualDeviceDriver::disableIRQ, the body
disableIRQ(D, fd) ==
    [D EXCEPT !.irq_enabled = MapPut(@, fd, FALSE),
              !.irq_handlers = @ \ {fd}]

\* VirtualDeviceDriver::closeDevice, lines 200-203: disableIRQ is called
closeDeviceDisables(D, fd) ==
    fd \in DOMAIN D.irq_enabled /\ D.irq_enabled[fd]

\* VirtualDeviceDriver::closeDevice, lines 205-215
closeDeviceEnd(D, fd) ==
    LET name == D.fd_to_device_map[fd]
    IN [D EXCEPT !.device_registry =
                     IF name \in DOMAIN @
                     THEN [@ EXCEPT ![name].state = "INITIALIZED"]
                     ELSE @,
                 !.fd_to_device_map = MapErase(@, fd),
                 !.device_memory = @ \ {fd},
                 !.irq_handlers = @ \ {fd},
                 !.irq_enabled = MapErase(@, fd)]

\* VirtualDeviceDriver::enableIRQ
enableIRQResult(D, fd) ==
    /\ isValidFileDescriptor(D, fd)
    /\ D.fd_to_device_map[fd] \in DOMAIN D.device_registry
    /\ D.device_registry[D.fd_to_device_map[fd]].supports_irq

enableIRQ(D, fd) ==
    IF ~enableIRQResult(D, fd) THEN D
    ELSE [D EXCEPT !.irq_handlers = @ \cup {fd},
                   !.irq_enabled = MapPut(@, fd, TRUE)]

\* VirtualDeviceDriver::ioctlDevice with IOCTL_ENABLE_IRQ
ioctlEnableIRQResult(D, fd) ==
    IF /\ isValidFileDescriptor(D, fd)
       /\ D.fd_to_device_map[fd] \in DOMAIN D.device_registry
       /\ D.device_registry[D.fd_to_device_map[fd]].state = "OPENED"
       /\ D.device_registry[D.fd_to_device_map[fd]].supports_irq
    THEN 0 ELSE -1

ioctlEnableIRQ(D, fd) ==
    IF ioctlEnableIRQResult(D, fd) # 0 THEN D
    ELSE [D EXCEPT !.irq_enabled = MapPut(@, fd, TRUE)]

\* VirtualDeviceDriver::ioctlDevice with IOCTL_DISABLE_IRQ
ioctlDisableIRQResult(D, fd) ==
    IF /\ isValidFileDescriptor(D, fd)
       /\ D.fd_to_device_map[fd] \in DOMAIN D.device_registry
       /\ D.device_registry[D.fd_to_device_map[fd]].state = "OPENED"
    THEN 0 ELSE -1

ioctlDisableIRQ(D, fd) ==
    IF ioctlDisableIRQResult(D, fd) # 0 THEN D
    ELSE [D EXCEPT !.irq_enabled = MapPut(@, fd, FALSE)]

\* A call of the client thread that takes driver_mutex, leaves the object D
\* and returns val.
DriverCall(op, arg, D, val) ==
    /\ alive /\ device_driver.driver_mutex = "free"
    /\ device_driver' = D
    /\ client' = Returned(op, arg, val)
    /\ UNCHANGED <<system_tasks, task_mutex, pc, now, alive, reentered,
                   was_terminated, next_task_id, emergency_stop, debug_uart>>

LoadDriver == DriverCall("loadDriver", 0, loadDriver(device_driver), TRUE)

UnloadDriver ==
    DriverCall("unloadDriver", 0, unloadDriver(device_driver), TRUE)

RegisterDevice(name, type) ==
    DriverCall("registerDevice", name,
               registerDevice(device_driver, name, type),
               registerDeviceResult(device_driver, name))

UnregisterDevice(name) ==
    DriverCall("unregisterDevice", name, unregisterDevice(device_driver, name),
               unregisterDeviceResult(device_driver, name))

OpenDevice(name) ==
    DriverCall("openDevice", name, openDevice(device_driver, name),
               openDeviceResult(device_driver, name))

EnableIRQ(fd) ==
    DriverCall("enableIRQ", fd, enableIRQ(device_driver, fd),
               enableIRQResult(device_driver, fd))

DisableIRQ(fd) ==
    DriverCall("disableIRQ", fd, disableIRQ(device_driver, fd), TRUE)

IoctlEnableIRQ(fd) ==
    DriverCall("IOCTL_ENABLE_IRQ", fd, ioctlEnableIRQ(device_driver, fd),
               ioctlEnableIRQResult(device_driver, fd))

IoctlDisableIRQ(fd) ==
    DriverCall("IOCTL_DISABLE_IRQ", fd, ioctlDisableIRQ(device_driver, fd),
               ioctlDisableIRQResult(device_driver, fd))

\* closeDevice() holds driver_mutex and calls disableIRQ(), which locks
\* driver_mutex.
CloseRelock(fd) == [st |-> "relock", op |-> "closeDevice", task |-> fd]

\* VirtualDeviceDriver::closeDevice: an invalid descriptor, a descriptor
\* without an enabled IRQ, or the call of disableIRQ()
CloseDevice(fd) ==
    IF ~isValidFileDescriptor(device_driver, fd)
    THEN DriverCall("closeDevice", fd, device_driver, FALSE)
    ELSE IF ~closeDeviceDisables(device_driver, fd)
    THEN DriverCall("closeDevice", fd, closeDeviceEnd(device_driver, fd), TRUE)
    ELSE /\ alive /\ device_driver.driver_mutex = "free"
         /\ device_driver' = [device_driver EXCEPT !.driver_mutex = "client"]
         /\ client' = CloseRelock(fd)
         /\ UNCHANGED <<system_tasks, task_mutex, pc, now, alive, reentered,
                        was_terminated, next_task_id, emergency_stop,
                        debug_uart>>

\* Locking the std::mutex that the thread holds is undefined behaviour: the
\* thread waits for ever for its own lock,
CloseRelockDeadlocks(fd) ==
    /\ alive /\ client = CloseRelock(fd)
    /\ client' = Blocked("disableIRQ", fd, 0)
    /\ UNCHANGED <<system_tasks, task_mutex, pc, now, alive, reentered,
                   was_terminated, next_task_id, emergency_stop,
                   device_driver, debug_uart>>

\* or the lock throws a std::system_error, which leaves closeDevice() and
\* releases the lock,
CloseRelockThrows(fd) ==
    /\ alive /\ client = CloseRelock(fd)
    /\ client' = Returned("closeDevice", fd, "system_error")
    /\ device_driver' = [device_driver EXCEPT !.driver_mutex = "free"]
    /\ UNCHANGED <<system_tasks, task_mutex, pc, now, alive, reentered,
                   was_terminated, next_task_id, emergency_stop, debug_uart>>

\* or the lock is granted: disableIRQ() runs and closeDevice() goes on.
CloseRelockGranted(fd) ==
    /\ alive /\ client = CloseRelock(fd)
    /\ client' = Returned("closeDevice", fd, TRUE)
    /\ device_driver' =
           [closeDeviceEnd(disableIRQ(device_driver, fd), fd)
               EXCEPT !.driver_mutex = "free"]
    /\ UNCHANGED <<system_tasks, task_mutex, pc, now, alive, reentered,
                   was_terminated, next_task_id, emergency_stop, debug_uart>>

\* The file descriptors that are open, and one that is not.
OpenFds == DOMAIN device_driver.fd_to_device_map

InitDriver ==
    /\ system_tasks = [t \in {} |-> 0]
    /\ InitThreads({})

NextDriver ==
    \/ LoadDriver
    \/ UnloadDriver
    \/ \E name \in DeviceNames, type \in DeviceTypes :
           RegisterDevice(name, type)
    \/ \E name \in DeviceNames : UnregisterDevice(name)
    \/ \E name \in DeviceNames : OpenDevice(name)
    \/ \E fd \in OpenFds \cup {device_driver.next_file_descriptor} :
           CloseDevice(fd)
    \/ \E fd \in OpenFds : EnableIRQ(fd)
    \/ \E fd \in OpenFds : DisableIRQ(fd)
    \/ \E fd \in OpenFds : IoctlEnableIRQ(fd)
    \/ \E fd \in OpenFds : IoctlDisableIRQ(fd)
    \/ \E fd \in Ints : CloseRelockDeadlocks(fd)
    \/ \E fd \in Ints : CloseRelockThrows(fd)
    \/ \E fd \in Ints : CloseRelockGranted(fd)

SpecDriver == InitDriver /\ [][NextDriver]_vars

----------------------------------------------------------------------------
\* The UART (src/src/sdk/uart.cpp).  The calls of the client thread hold
\* uart_mutex from their first line to their last; the transmission thread
\* and the reception thread take it for parts of their loops.

Bytes == {0, 1}
UartModes == {"RS232", "LOOPBACK"}
FifoSizes == 1..FifoSize
UARTConfigs ==
    [tx_fifo_size : FifoSizes, rx_fifo_size : FifoSizes, mode : UartModes]

\* while (q.size() > n) q.pop();
PopTo(q, n) == IF Len(q) > n THEN SubSeq(q, Len(q) - n + 1, Len(q)) ELSE q

\* UART::initialize.  Both threads start at the head of their loops.
initialize(U) ==
    [U EXCEPT !.tx_fifo = <<>>, !.rx_fifo = <<>>,
              !.tx_running = TRUE, !.rx_running = TRUE,
              !.tx_pc = "loop", !.rx_pc = "loop",
              !.initialized = TRUE]

\* UART::configure
configureResult(U) == U.initialized

configure(U, new_config) ==
    IF ~U.initialized THEN U
    ELSE [U EXCEPT !.config = new_config,
                   !.tx_fifo = PopTo(@, new_config.tx_fifo_size)]

\* UART::transmit(uint8_t)
transmitResult(U) ==
    U.initialized /\ ~(Len(U.tx_fifo) >= U.config.tx_fifo_size)

transmit(U, byte) ==
    IF transmitResult(U) THEN [U EXCEPT !.tx_fifo = Append(@, byte)] ELSE U

\* UART::receive(uint8_t&): FALSE, or the byte
receiveResult(U) ==
    IF ~U.initialized \/ U.rx_fifo = <<>> THEN <<FALSE>>
    ELSE <<TRUE, Head(U.rx_fifo)>>

receive(U) ==
    IF ~U.initialized \/ U.rx_fifo = <<>> THEN U
    ELSE [U EXCEPT !.rx_fifo = Tail(@)]

\* UART::receive(size_t max_bytes)
bytes_to_read(U, max_bytes) ==
    IF max_bytes = 0 THEN Len(U.rx_fifo)
    ELSE IF max_bytes < Len(U.rx_fifo) THEN max_bytes ELSE Len(U.rx_fifo)

receiveBytesResult(U, max_bytes) ==
    SubSeq(U.rx_fifo, 1, bytes_to_read(U, max_bytes))

receiveBytes(U, max_bytes) ==
    [U EXCEPT !.rx_fifo =
                  SubSeq(@, bytes_to_read(U, max_bytes) + 1, Len(@))]

\* UART::clearTxFifo and UART::clearRxFifo
clearTxFifo(U) == [U EXCEPT !.tx_fifo = <<>>]
clearRxFifo(U) == [U EXCEPT !.rx_fifo = <<>>]

\* transmissionLoop with the lock: the predicate of tx_cv.wait, the break,
\* and the byte taken from the TX FIFO before the lock is released for the
\* time of the frame.
txWait(U) ==
    IF U.tx_fifo = <<>> /\ U.tx_running
    THEN [U EXCEPT !.tx_pc = "waiting"]
    ELSE IF ~U.tx_running
    THEN [U EXCEPT !.tx_pc = "exited"]
    ELSE [U EXCEPT !.byte = Head(U.tx_fifo),
                   !.tx_fifo = Tail(@),
                   !.tx_pc = "sleeping"]

\* transmissionLoop after lock.lock(): the simulated error, or the byte
\* counted and, in loopback mode, put into the RX FIFO if there is room.
txFrameDone(U) ==
    LET n == (U.error_counter + 1) % ErrorPeriod
        V == [U EXCEPT !.error_counter = n, !.tx_pc = "loop"]
    IN  IF n = 0 THEN V
        ELSE IF /\ U.config.mode = "LOOPBACK"
                /\ Len(U.rx_fifo) < U.config.rx_fifo_size
        THEN [V EXCEPT !.rx_fifo = Append(@, U.byte)]
        ELSE V

\* A call of the client thread that takes uart_mutex, leaves the object U
\* and returns val.
UartCall(op, arg, U, val) ==
    /\ alive /\ debug_uart.uart_mutex = "free"
    /\ debug_uart' = U
    /\ client' = Returned(op, arg, val)
    /\ UNCHANGED <<system_tasks, task_mutex, pc, now, alive, reentered,
                   was_terminated, next_task_id, emergency_stop,
                   device_driver>>

\* A step of a thread of the UART.
UartStep(U) ==
    /\ debug_uart' = U
    /\ UNCHANGED <<system_tasks, task_mutex, pc, now, client, alive,
                   reentered, was_terminated, next_task_id, emergency_stop,
                   device_driver>>

\* initialize() is called once for a UART whose threads do not run.
Initialize ==
    /\ debug_uart.tx_pc \in {"unstarted", "joined"}
    /\ debug_uart.rx_pc \in {"unstarted", "joined"}
    /\ UartCall("initialize", 0, initialize(debug_uart), TRUE)

Configure(new_config) ==
    UartCall("configure", new_config, configure(debug_uart, new_config),
             configureResult(debug_uart))

Transmit(byte) ==
    UartCall("transmit", byte, transmit(debug_uart, byte),
             transmitResult(debug_uart))

Receive ==
    UartCall("receive", 0, receive(debug_uart), receiveResult(debug_uart))

ReceiveBytes(max_bytes) ==
    UartCall("receive", max_bytes, receiveBytes(debug_uart, max_bytes),
             receiveBytesResult(debug_uart, max_bytes))

ClearTxFifo == UartCall("clearTxFifo", 0, clearTxFifo(debug_uart), TRUE)

ClearRxFifo == UartCall("clearRxFifo", 0, clearRxFifo(debug_uart), TRUE)

\* while (tx_running.load())
TxLoop ==
    /\ debug_uart.tx_pc = "loop"
    /\ UartStep([debug_uart EXCEPT
                    !.tx_pc = IF debug_uart.tx_running THEN "lock"
                              ELSE "exited"])

\* std::unique_lock<std::mutex> lock(uart_mutex); tx_cv.wait(lock, ...)
TxLock ==
    /\ debug_uart.tx_pc = "lock"
    /\ debug_uart.uart_mutex = "free"
    /\ UartStep(txWait(debug_uart))

\* The thread in tx_cv.wait is notified, or wakes up spuriously, takes the
\* lock again and looks at the predicate.
TxWakes ==
    /\ debug_uart.tx_pc = "waiting"
    /\ debug_uart.uart_mutex = "free"
    /\ UartStep(txWait(debug_uart))

\* The sleep for the time of the frame ends.
TxSleepEnds ==
    /\ debug_uart.tx_pc = "sleeping"
    /\ UartStep([debug_uart EXCEPT !.tx_pc = "relock"])

\* lock.lock() and the rest of the iteration
TxRelock ==
    /\ debug_uart.tx_pc = "relock"
    /\ debug_uart.uart_mutex = "free"
    /\ UartStep(txFrameDone(debug_uart))

\* while (rx_running.load())
RxLoop ==
    /\ debug_uart.rx_pc = "loop"
    /\ UartStep([debug_uart EXCEPT
                    !.rx_pc = IF debug_uart.rx_running THEN "sleeping"
                              ELSE "exited"])

\* The sleep of the reception thread ends.
RxSleepEnds ==
    /\ debug_uart.rx_pc = "sleeping"
    /\ UartStep([debug_uart EXCEPT
                    !.rx_pc = IF ~debug_uart.rx_running THEN "exited"
                              ELSE IF debug_uart.config.mode # "LOOPBACK"
                              THEN "lock"
                              ELSE "loop"])

\* std::lock_guard<std::mutex> lock(uart_mutex) of the reception thread
RxLock ==
    /\ debug_uart.rx_pc = "lock"
    /\ debug_uart.uart_mutex = "free"
    /\ UartStep([debug_uart EXCEPT !.rx_pc = "loop"])

\* The client thread is in cleanup(), in the join of thread th.
Joining(th) == [st |-> "join", op |-> "cleanup", task |-> th]

\* UART::cleanup up to tx_thread.join()
Cleanup ==
    /\ alive /\ debug_uart.uart_mutex = "free"
    /\ debug_uart' = [debug_uart EXCEPT !.uart_mutex = "client",
                                        !.tx_running = FALSE,
                                        !.rx_running = FALSE]
    /\ client' = Joining("tx_thread")
    /\ UNCHANGED <<system_tasks, task_mutex, pc, now, alive, reentered,
                   was_terminated, next_task_id, emergency_stop,
                   device_driver>>

\* A thread that is not joinable, or that has left its loop
Joinable(p) == p \in {"unstarted", "joined", "exited"}
Joined(p) == IF p = "exited" THEN "joined" ELSE p

\* if (tx_thread.joinable()) tx_thread.join();
CleanupJoinsTx ==
    /\ alive /\ client = Joining("tx_thread")
    /\ Joinable(debug_uart.tx_pc)
    /\ debug_uart' = [debug_uart EXCEPT !.tx_pc = Joined(@)]
    /\ client' = Joining("rx_thread")
    /\ UNCHANGED <<system_tasks, task_mutex, pc, now, alive, reentered,
                   was_terminated, next_task_id, emergency_stop,
                   device_driver>>

\* if (rx_thread.joinable()) rx_thread.join(); and the rest of cleanup()
CleanupJoinsRx ==
    /\ alive /\ client = Joining("rx_thread")
    /\ Joinable(debug_uart.rx_pc)
    /\ debug_uart' = [debug_uart EXCEPT !.rx_pc = Joined(@),
                                        !.tx_fifo = <<>>,
                                        !.rx_fifo = <<>>,
                                        !.initialized = FALSE,
                                        !.uart_mutex = "free"]
    /\ client' = Returned("cleanup", 0, TRUE)
    /\ UNCHANGED <<system_tasks, task_mutex, pc, now, alive, reentered,
                   was_terminated, next_task_id, emergency_stop,
                   device_driver>>

InitUart ==
    /\ system_tasks = [t \in {} |-> 0]
    /\ InitThreads({})

NextUart ==
    \/ Initialize
    \/ \E new_config \in UARTConfigs : Configure(new_config)
    \/ \E byte \in Bytes : Transmit(byte)
    \/ Receive
    \/ \E max_bytes \in 0..FifoSize : ReceiveBytes(max_bytes)
    \/ ClearTxFifo
    \/ ClearRxFifo
    \/ TxLoop
    \/ TxLock
    \/ TxWakes
    \/ TxSleepEnds
    \/ TxRelock
    \/ RxLoop
    \/ RxSleepEnds
    \/ RxLock
    \/ Cleanup
    \/ CleanupJoinsTx
    \/ CleanupJoinsRx

SpecUart == InitUart /\ [][NextUart]_vars

----------------------------------------------------------------------------
\* The creation of tasks: Task::Task takes the id of the new task from the
\* static counter next_task_id with one atomic fetch_add, so that constructor
\* calls of different threads take their ids one after the other, and
\* createRTOSTasks pushes the task to the back of system_tasks.  A Task that
\* is destroyed leaves the counter as it is.  Here system_tasks maps the
\* position of a task in the vector to the task.

InitCreate ==
    /\ system_tasks = [t \in {} |-> 0]
    /\ InitThreads({})

\* std::make_unique<Task>(...) and system_tasks.push_back(...)
CreateTask(prio, period, deadline) ==
    LET slot == CHOOSE k \in 1..NumTasks : k \notin Tasks
        T == NewTask(next_task_id, prio, "PERIODIC", period, deadline, now)
    IN /\ Cardinality(Tasks) < NumTasks
       /\ system_tasks' = [t \in Tasks \cup {slot} |->
                              IF t = slot THEN T ELSE system_tasks[t]]
       /\ task_mutex' = [t \in Tasks \cup {slot} |->
                            IF t = slot THEN "free" ELSE task_mutex[t]]
       /\ next_task_id' = WrapId(next_task_id + 1)
       /\ UNCHANGED <<pc, now, client, alive, reentered, was_terminated,
                      emergency_stop, device_driver, debug_uart>>

\* the std::unique_ptr<Task> of position t is reset
DestroyTask(t) ==
    /\ system_tasks' = [u \in Tasks \ {t} |-> system_tasks[u]]
    /\ task_mutex' = [u \in Tasks \ {t} |-> task_mutex[u]]
    /\ UNCHANGED <<pc, now, client, alive, reentered, was_terminated,
                   next_task_id,
                   emergency_stop, device_driver, debug_uart>>

NextCreate ==
    \/ \E prio \in Priorities, period \in Periods, deadline \in Deadlines :
           CreateTask(prio, period, deadline)
    \/ \E t \in Tasks : DestroyTask(t)

SpecCreate == InitCreate /\ [][NextCreate]_vars

----------------------------------------------------------------------------
\* One task, its polling thread and a thread that reads the statistics of
\* the task through getStatistics(), which returns a reference to the
\* statistics without locking task_mutex.  The reads race with the writes of
\* execute(), which are taken here statement by statement.

\* the task function has returned: executions_count++, checkDeadlineMiss()
ExecuteCounts(t) ==
    /\ alive /\ pc[t] = "closure"
    /\ Update(t, executeCounted(system_tasks[t]))
    /\ pc' = [pc EXCEPT ![t] = "counted"]
    /\ UNCHANGED <<task_mutex, now, client, alive, reentered, next_task_id,
                   emergency_stop, device_driver, debug_uart>>

\* updateNextReleaseTime() and setState()
ExecuteRearms(t) ==
    /\ alive /\ pc[t] = "counted"
    /\ Update(t, executeRearmed(system_tasks[t]))
    /\ pc' = [pc EXCEPT ![t] = "rearmed"]
    /\ UNCHANGED <<task_mutex, now, client, alive, reentered, next_task_id,
                   emergency_stop, device_driver, debug_uart>>

\* recordExecutionEnd(), and execute() returns
ExecuteEnds(t) ==
    /\ alive /\ pc[t] = "rearmed"
    /\ Update(t, recordExecutionEnd(system_tasks[t]))
    /\ task_mutex' = [task_mutex EXCEPT ![t] = "free"]
    /\ pc' = [pc EXCEPT ![t] = "poll"]
    /\ UNCHANGED <<now, client, alive, reentered, next_task_id,
                   emergency_stop, device_driver, debug_uart>>

\* another thread copies the statistics it reads through getStatistics()
GetStatistics(t) ==
    /\ alive
    /\ client' = Returned("getStatistics", t, system_tasks[t].statistics)
    /\ UNCHANGED <<system_tasks, task_mutex, pc, now, alive, reentered,
                   was_terminated, next_task_id, emergency_stop, device_driver, debug_uart>>

NextObserve ==
    \/ Tick
    \/ \E t \in Tasks : Poll(t)
    \/ \E t \in Tasks : ExecuteEnter(t)
    \/ \E t \in Tasks : ExecuteCounts(t)
    \/ \E t \in Tasks : ExecuteRearms(t)
    \/ \E t \in Tasks : ExecuteEnds(t)
    \/ \E t \in Tasks : GetStatistics(t)

SpecObserve == Init /\ [][NextObserve]_vars

----------------------------------------------------------------------------
\* One task, its polling thread and a thread that calls sleep() on it.  The
\* clock advances, and the polling thread, a loop around sleep_for, keeps
\* taking its steps: both are weakly fair.  The task function returns.

NextSleep ==
    \/ Tick
    \/ \E t \in Tasks : Poll(t)
    \/ \E t \in Tasks : ExecuteEnter(t)
    \/ \E t \in Tasks : ClosureReturns(t)
    \/ \E t \in Tasks, d \in SleepDurations : CallSleep(t, d)
    \/ \E t \in Tasks, d \in SleepDurations : CallBlocks("sleep", t, d)

PollingStep ==
    \E t \in Tasks : Poll(t) \/ ExecuteEnter(t) \/ ClosureReturns(t)

SpecSleep ==
    Init /\ [][NextSleep]_vars /\ WF_vars(Tick) /\ WF_vars(PollingStep)

----------------------------------------------------------------------------
\* EmbeddedSystemDemo::run on a timed schedule, in milliseconds: a polling
\* thread gets the processor as soon as its sleep_for is over, and the task
\* function of a task runs for about its execution time.

\* std::this_thread::sleep_for(std::chrono::milliseconds(10))
PollSleep == 10

\* Task A and task B, created at time 0 and run until time 500; a task
\* function runs for its execution time, give or take `about'.
ScenarioA ==
    [tasks |-> << [priority |-> HIGH, period |-> 100, deadline |-> 50,
                   execution |-> 10],
                  [priority |-> LOW, period |-> 200, deadline |-> 150,
                   execution |-> 20] >>,
     about |-> 10,
     until |-> 500]

InitScenario ==
    /\ system_tasks = [t \in DOMAIN ScenarioA.tasks |->
                          NewTask(t, ScenarioA.tasks[t].priority, "PERIODIC",
                                  ScenarioA.tasks[t].period,
                                  ScenarioA.tasks[t].deadline, 0)]
    /\ InitThreads(DOMAIN ScenarioA.tasks)

\* The time for which the task function of t has been running.
Elapsed(t) == now - system_tasks[t].execution_start_time

\* The polling thread of t has a step to take before time passes.
Urgent(t) ==
    \/ pc[t] = "poll" /\ isReadyToRun(system_tasks[t])
    \/ pc[t] = "execute"
    \/ /\ pc[t] = "closure"
       /\ Elapsed(t) >= ScenarioA.tasks[t].execution + ScenarioA.about

\* Time passes, one poll interval at a time, while no thread has a step to
\* take, up to the last poll before the end of the scenario; the threads in
\* sleep_for wake up.
ScenarioTick ==
    /\ now + PollSleep < ScenarioA.until
    /\ \A t \in Tasks : ~Urgent(t)
    /\ now' = now + PollSleep
    /\ pc' = [t \in Tasks |-> IF pc[t] = "sleep" THEN "poll" ELSE pc[t]]
    /\ UNCHANGED <<system_tasks, task_mutex, client, alive, reentered,
                   was_terminated, next_task_id, emergency_stop, device_driver, debug_uart>>

\* if (task->isReadyToRun()); when it is not, the thread polls again after
\* its sleep_for, which finds the same answer until time has passed
ScenarioPoll(t) == Poll(t)

\* task->execute() up to the start of the task function, or up to its early
\* return and the sleep_for that follows
ScenarioExecute(t) ==
    /\ alive /\ pc[t] = "execute" /\ task_mutex[t] = "free"
    /\ IF executeGuard(system_tasks[t])
       THEN /\ Update(t, executeBegin(system_tasks[t]))
            /\ task_mutex' = [task_mutex EXCEPT ![t] = "dispatcher"]
            /\ pc' = [pc EXCEPT ![t] = "closure"]
       ELSE /\ pc' = [pc EXCEPT ![t] = "sleep"]
            /\ UNCHANGED <<system_tasks, task_mutex, was_terminated>>
    /\ UNCHANGED <<now, client, alive, reentered, next_task_id,
                   emergency_stop, device_driver, debug_uart>>

\* the task function returns, execute() returns and the thread is in sleep_for
ScenarioReturns(t) ==
    /\ alive /\ pc[t] = "closure"
    /\ Elapsed(t) >= ScenarioA.tasks[t].execution - ScenarioA.about
    /\ Update(t, executeReturned(system_tasks[t]))
    /\ task_mutex' = [task_mutex EXCEPT ![t] = "free"]
    /\ pc' = [pc EXCEPT ![t] = "sleep"]
    /\ UNCHANGED <<now, client, alive, reentered, next_task_id,
                   emergency_stop, device_driver, debug_uart>>

NextScenario ==
    \/ ScenarioTick
    \/ \E t \in Tasks : ScenarioPoll(t)
    \/ \E t \in Tasks : ScenarioExecute(t)
    \/ \E t \in Tasks : ScenarioReturns(t)

SpecScenario == InitScenario /\ [][NextScenario]_vars

----------------------------------------------------------------------------
\* A task function that calls a method of its own task.  The calling thread
\* already holds task_mutex, a std::mutex: locking it again is undefined
\* behaviour.  The thread blocks for ever on its own lock, or the lock is
\* granted and the method body runs inside execute(), or the lock throws a
\* std::system_error, which is the step ClosureThrows.

ClosureCallDeadlocks(t) ==
    /\ alive /\ pc[t] = "closure"
    /\ pc' = [pc EXCEPT ![t] = "deadlock"]
    /\ UNCHANGED <<system_tasks, task_mutex, now, client, alive, reentered,
                   was_terminated, next_task_id, emergency_stop, device_driver, debug_uart>>

\* The method body runs: T is the object it leaves, val the value returned.
ClosureCall(op, t, T, val) ==
    /\ alive /\ pc[t] = "closure"
    /\ Update(t, T)
    /\ reentered' = Returned(op, t, val)
    /\ UNCHANGED <<task_mutex, pc, now, client, alive, next_task_id,
                   emergency_stop, device_driver, debug_uart>>

ClosureSuspend(t) ==
    /\ CanSwitch(system_tasks[t], 2)
    /\ ClosureCall("suspend", t, suspend(system_tasks[t]), TRUE)

ClosureResume(t) ==
    /\ CanSwitch(system_tasks[t], 2)
    /\ ClosureCall("resume", t, resume(system_tasks[t]), TRUE)

ClosureTerminate(t) ==
    /\ CanSwitch(system_tasks[t], 2)
    /\ ClosureCall("terminate", t, terminate(system_tasks[t]), TRUE)

ClosureSleep(t, duration) ==
    /\ CanSwitch(system_tasks[t], 2)
    /\ ClosureCall("sleep", t, sleep(system_tasks[t], duration), TRUE)

ClosureSetPriority(t, new_priority) ==
    ClosureCall("setPriority", t, setPriority(system_tasks[t], new_priority),
                setPriorityResult(system_tasks[t], new_priority))

ClosureSetPeriod(t, new_period) ==
    /\ CanAdvance(system_tasks[t], 2 * new_period)
    /\ ClosureCall("setPeriod", t, setPeriod(system_tasks[t], new_period),
                   setPeriodResult(system_tasks[t], new_period))

NextReentrant ==
    \/ Tick
    \/ \E t \in Tasks : Poll(t)
    \/ \E t \in Tasks : ExecuteEnter(t)
    \/ \E t \in Tasks : ClosureReturns(t)
    \/ \E t \in Tasks : ClosureThrows(t)
    \/ \E t \in Tasks : ClosureThrowsOther(t)
    \/ \E t \in Tasks : ClosureCallDeadlocks(t)
    \/ \E t \in Tasks : ClosureSuspend(t)
    \/ \E t \in Tasks : ClosureResume(t)
    \/ \E t \in Tasks : ClosureTerminate(t)
    \/ \E t \in Tasks, d \in SleepDurations : ClosureSleep(t, d)
    \/ \E t \in Tasks, p \in Priorities : ClosureSetPriority(t, p)
    \/ \E t \in Tasks, p \in Periods : ClosureSetPeriod(t, p)

SpecReentrant == Init /\ [][NextReentrant]_vars

----------------------------------------------------------------------------
\* Vocabulary of the properties.

\* The tasks whose lifecycle state is RUNNING.
Running == {t \in Tasks : system_tasks[t].current_state = "RUNNING"}

\* Task t may be dispatched: READY and released.
Eligible(t) ==
    /\ system_tasks[t].current_state = "READY"
    /\ system_tasks[t].next_release_time <= now

\* This step starts the task function of t.
Starts(t) ==
    /\ system_tasks[t].current_state # "RUNNING"
    /\ system_tasks'[t].current_state = "RUNNING"

\* This step ends a dispatch of t: execute() returns to the polling loop.
DispatchEnds(t) == pc[t] = "closure" /\ pc'[t] = "poll"

\* The clock has passed the deadline of t.
Late(t) == now > system_tasks[t].deadline_time

NonPeriodic(t) == system_tasks[t].task_type # "PERIODIC"

----------------------------------------------------------------------------
\* C1: at most one task is RUNNING at any instant: in every reachable state
\* of run(), which polls each task with isReadyToRun() and runs it with
\* execute(), the number of tasks whose state is RUNNING is 0 or 1.
C1_AtMostOneRunning == Cardinality(Running) <= 1

\* C2: a task whose state has once been TERMINATED is never selected again:
\* isReadyToRun() does not return true for it and its task function is not
\* running, whatever calls were made since.
C2_TerminatedNeverSelected ==
    \A t \in was_terminated :
        /\ ~isReadyToRun(system_tasks[t])
        /\ pc[t] # "closure"

\* C3: priority order of dispatch: while two tasks are both eligible and the
\* first has the numerically lower priority value, the second does not start
\* executing (so the first starts before it).
C3_PriorityOrder ==
    [][\A a, b \in Tasks :
          ( /\ Eligible(a) /\ Eligible(b)
            /\ system_tasks[a].priority < system_tasks[b].priority )
          => ~Starts(b)]_vars

\* C4: a PERIODIC task is never dispatched early: the time at which its task
\* function was started is not before its next_release_time.
C4_NeverDispatchedEarly ==
    \A t \in Tasks :
        (system_tasks[t].task_type = "PERIODIC" /\ pc[t] = "closure")
        => system_tasks[t].execution_start_time
               >= system_tasks[t].next_release_time

\* C5: deadline invariant: for every task that is not RUNNING,
\* deadline_time = next_release_time + the relative deadline.
C5_DeadlineInvariant ==
    \A t \in Tasks :
        system_tasks[t].current_state # "RUNNING"
        => system_tasks[t].deadline_time =
               system_tasks[t].next_release_time + system_tasks[t].timing.deadline

\* C6 as claimed: every dispatch, whether its task function returns or
\* fails, adds one to missed_deadlines when it ends after the deadline_time
\* in force, and nothing otherwise.
C6_MissedCountsEveryLateDispatch ==
    [][\A t \in Tasks :
          DispatchEnds(t)
          => system_tasks'[t].statistics.missed_deadlines =
                 system_tasks[t].statistics.missed_deadlines
                 + (IF Late(t) THEN 1 ELSE 0)]_vars

\* C6 as amended: missed_deadlines grows by exactly one in a step in which
\* the task function returns normally after the deadline_time in force, and
\* stays as it is in every other step: a normal return in time, a dispatch
\* whose task function fails (late or not), and every other call.
C6_MissedCountsLateReturns ==
    [][\A t \in Tasks :
          system_tasks'[t].statistics.missed_deadlines =
              system_tasks[t].statistics.missed_deadlines
              + (IF ClosureReturns(t) /\ Late(t) THEN 1 ELSE 0)]_vars

\* A dispatch has returned late and has been counted.
C6_Witness ==
    \E t \in Tasks :
        /\ pc[t] = "poll"
        /\ system_tasks[t].statistics.executions_count = 1
        /\ system_tasks[t].statistics.missed_deadlines = 1

\* C7: context_switches counts the lifecycle state changes exactly: every
\* step adds one to it when it changes the state of the task to a different
\* value, and nothing when it leaves the state as it is.
C7_ContextSwitchesCountTransitions ==
    [][\A t \in Tasks :
          system_tasks'[t].statistics.context_switches =
              system_tasks[t].statistics.context_switches
              + (IF system_tasks'[t].current_state # system_tasks[t].current_state
                 THEN 1 ELSE 0)]_vars

\* A suspend/resume cycle of a READY task has added exactly two.
C7_Witness ==
    \E t \in Tasks :
        /\ client = Returned("resume", t, TRUE)
        /\ system_tasks[t].current_state = "READY"
        /\ system_tasks[t].statistics.executions_count = 0
        /\ system_tasks[t].statistics.context_switches = 2

\* C8: setPriority is rejected while RUNNING: a step taken while the state
\* of the task is RUNNING leaves its priority as it is, and a setPriority
\* body that runs in that state returns false.
C8_SetPriorityRejectedWhileRunning ==
    [][\A t \in Tasks :
          system_tasks[t].current_state = "RUNNING"
          => /\ system_tasks'[t].priority = system_tasks[t].priority
             /\ \A p \in Priorities :
                    ClosureSetPriority(t, p) => reentered'.val = FALSE]_vars

\* setPriority has run while the task was RUNNING and has returned false.
C8_Witness ==
    \E t \in Tasks :
        /\ pc[t] = "closure"
        /\ system_tasks[t].current_state = "RUNNING"
        /\ reentered = Returned("setPriority", t, FALSE)

\* C9: setPeriod is rejected while RUNNING: a setPeriod call made on a
\* PERIODIC task while its state is RUNNING (the caller finds task_mutex
\* held by execute()) returns false and leaves period, next_release_time and
\* deadline_time as they are.
C9_SetPeriodRejectedWhileRunning ==
    [][\A t \in Tasks :
          ( /\ client.st = "blocked" /\ client.op = "setPeriod"
            /\ client.task = t /\ ~NonPeriodic(t)
            /\ client'.st = "returned" )
          => /\ client'.val = FALSE
             /\ system_tasks'[t].timing = system_tasks[t].timing
             /\ system_tasks'[t].next_release_time =
                    system_tasks[t].next_release_time
             /\ system_tasks'[t].deadline_time =
                    system_tasks[t].deadline_time]_vars

\* C10: setPeriod on a task that is not PERIODIC returns false and leaves
\* every field of the task (period, next_release_time, deadline_time, state,
\* statistics) as it is, in whatever lifecycle state the call finds it.
C10_SetPeriodNonPeriodicFails ==
    [][\A t \in Tasks : \A p \in Periods :
          (CallSetPeriod(t, p) /\ NonPeriodic(t))
          => /\ client'.val = FALSE
             /\ system_tasks'[t] = system_tasks[t]]_vars

\* setPeriod has returned false on a suspended task that is not PERIODIC.
C10_Witness ==
    \E t \in Tasks :
        /\ NonPeriodic(t)
        /\ system_tasks[t].current_state = "SUSPENDED"
        /\ client = Returned("setPeriod", t, FALSE)

\* C11 as claimed: periodic catch-up.  When the task function of a PERIODIC
\* task returns at time now, next_release_time has been advanced by the
\* smallest positive multiple of the period that puts it after now,
\* deadline_time is next_release_time + the relative deadline, and the state
\* is READY.
C11_PeriodicCatchUp ==
    [][\A t \in Tasks :
          (ClosureReturns(t) /\ ~NonPeriodic(t))
          => /\ system_tasks'[t].next_release_time > now
             /\ system_tasks'[t].next_release_time
                    > system_tasks[t].next_release_time
             /\ (system_tasks'[t].next_release_time
                    - system_tasks[t].next_release_time)
                    % system_tasks[t].timing.period = 0
             /\ \/ system_tasks'[t].next_release_time =
                       system_tasks[t].next_release_time
                       + system_tasks[t].timing.period
                \/ system_tasks'[t].next_release_time
                       - system_tasks[t].timing.period <= now
             /\ system_tasks'[t].deadline_time =
                    system_tasks'[t].next_release_time
                    + system_tasks[t].timing.deadline
             /\ system_tasks'[t].current_state = "READY"]_vars

\* C13 as claimed: failure containment.  A step in which the task function
\* of a task fails, with an error of any kind, ends the call of execute()
\* (the polling thread is back in its loop) and leaves the process alive, so
\* that the polling threads of the other tasks go on dispatching.
C13_FailureContained ==
    [][\A t \in Tasks :
          (ClosureThrows(t) \/ ClosureThrowsOther(t))
          => (alive' /\ pc'[t] = "poll")]_vars

\* C14 as claimed: failure outcome.  A step in which the task function of a
\* task fails, with an error of any kind, leaves the state of that task
\* TERMINATED, whatever the kind of the task.
C14_FailureTerminates ==
    [][\A t \in Tasks :
          (ClosureThrows(t) \/ ClosureThrowsOther(t))
          => system_tasks'[t].current_state = "TERMINATED"]_vars

\* C12 as claimed: phase grid.  For a PERIODIC task no step (of execute,
\* setPeriod, sleep, suspend or resume) lowers next_release_time, every
\* change of it is a whole multiple of the period of the task, and the
\* release time stays on the grid creation_time + k * period (the task is
\* created at time 0).
C12_PhaseGrid ==
    [][\A t \in Tasks :
          ~NonPeriodic(t)
          => /\ system_tasks'[t].next_release_time
                    >= system_tasks[t].next_release_time
             /\ (system_tasks'[t].next_release_time
                    - system_tasks[t].next_release_time)
                    % system_tasks'[t].timing.period = 0
             /\ system_tasks'[t].next_release_time
                    % system_tasks'[t].timing.period = 0]_vars

\* C12 as amended: for a PERIODIC task, a normal return of the task function
\* and a setPeriod call each advance next_release_time by exactly one period
\* (for setPeriod the new one), sleep(duration) sets it to now + duration,
\* and every other step leaves it as it is.
C12_ReleaseAdvancesByOnePeriod ==
    [][\A t \in Tasks :
          ~NonPeriodic(t)
          => IF \E d \in SleepDurations : CallSleep(t, d)
             THEN \E d \in SleepDurations :
                      /\ CallSleep(t, d)
                      /\ system_tasks'[t].next_release_time = now + d
             ELSE system_tasks'[t].next_release_time =
                      system_tasks[t].next_release_time
                      + (IF \/ ClosureReturns(t)
                            \/ \E p \in Periods : CallSetPeriod(t, p)
                         THEN system_tasks'[t].timing.period ELSE 0)]_vars

\* A PERIODIC task has run once and has then been given the period 2: its
\* release time has advanced by its first period and then by 2.
C12_Witness ==
    \E t \in Tasks :
        /\ ~NonPeriodic(t)
        /\ client = Returned("setPeriod", t, TRUE)
        /\ system_tasks[t].statistics.executions_count = 1
        /\ system_tasks[t].timing.period = 2
        /\ system_tasks[t].next_release_time >= 3

\* C16: a deadline miss is not fatal.  A step in which the task function
\* returns after running for longer than the relative deadline of its task
\* adds one to missed_deadlines (which is 1 after the first dispatch), ends
\* execute() normally with the process alive, and leaves a PERIODIC task
\* READY with next_release_time advanced.
C16_DeadlineMissNotFatal ==
    [][\A t \in Tasks :
          ( /\ ClosureReturns(t)
            /\ now - system_tasks[t].execution_start_time
                   > system_tasks[t].timing.deadline )
          => /\ system_tasks'[t].statistics.missed_deadlines =
                    system_tasks[t].statistics.missed_deadlines + 1
             /\ system_tasks[t].statistics.executions_count = 0
                    => system_tasks'[t].statistics.missed_deadlines = 1
             /\ alive' /\ pc'[t] = "poll"
             /\ ~NonPeriodic(t)
                    => /\ system_tasks'[t].current_state = "READY"
                       /\ system_tasks'[t].next_release_time
                              > system_tasks[t].next_release_time]_vars

\* The single dispatch of a PERIODIC task has overrun its relative deadline:
\* the miss is counted and the task is armed for its next period.
C16_Witness ==
    \E t \in Tasks :
        /\ ~NonPeriodic(t) /\ alive /\ pc[t] = "poll"
        /\ system_tasks[t].statistics.executions_count = 1
        /\ system_tasks[t].statistics.total_execution_time
               > system_tasks[t].timing.deadline
        /\ system_tasks[t].statistics.missed_deadlines = 1
        /\ system_tasks[t].current_state = "READY"
        /\ system_tasks[t].next_release_time = system_tasks[t].timing.period

\* C17: one-shot termination.  The step in which the task function of a
\* ONE_SHOT task returns normally from its first dispatch leaves the state
\* TERMINATED and executions_count = 1.
C17_OneShotTerminates ==
    [][\A t \in Tasks :
          ( /\ ClosureReturns(t)
            /\ system_tasks[t].task_type = "ONE_SHOT"
            /\ system_tasks[t].statistics.executions_count = 0 )
          => /\ system_tasks'[t].current_state = "TERMINATED"
             /\ system_tasks'[t].statistics.executions_count = 1]_vars

\* A ONE_SHOT task has been dispatched once and is TERMINATED.
C17_Witness ==
    \E t \in Tasks :
        /\ system_tasks[t].task_type = "ONE_SHOT"
        /\ pc[t] = "poll"
        /\ system_tasks[t].current_state = "TERMINATED"
        /\ system_tasks[t].statistics.executions_count = 1
        /\ system_tasks[t].enabled

\* C18 as claimed: an APERIODIC task does not re-arm itself.  Once it has
\* been dispatched, its polling thread does not start its task function
\* again as long as nothing outside changes next_release_time, so that
\* executions_count stays at 1.
C18_AperiodicRunsOnce ==
    [][\A t \in Tasks :
          ( /\ system_tasks[t].task_type = "APERIODIC"
            /\ system_tasks[t].statistics.executions_count >= 1 )
          => /\ ~Starts(t)
             /\ system_tasks'[t].statistics.executions_count = 1]_vars

\* C19 as claimed: sporadic minimum inter-arrival.  The return of the task
\* function of a SPORADIC task leaves the task BLOCKED, and a later dispatch
\* of it starts at a later time than the dispatch before it.
C19_SporadicInterArrival ==
    [][\A t \in Tasks :
          system_tasks[t].task_type = "SPORADIC"
          => /\ ClosureReturns(t)
                    => system_tasks'[t].current_state = "BLOCKED"
             /\ ( /\ Starts(t)
                  /\ system_tasks[t].statistics.executions_count >= 1 )
                    => now > system_tasks[t].execution_start_time]_vars

Quiet == \A t \in Tasks : ~Urgent(t)

\* The scenario has run to its end: the last poll before time 500 is done.
ScenarioOver == now + PollSleep >= ScenarioA.until /\ Quiet

\* C15 as claimed: scenario A.  Run until time 500, task A (period 100,
\* deadline 50) has been dispatched exactly 5 times, task B (period 200,
\* deadline 150) exactly 2 times, and neither has missed a deadline.
C15_ScenarioA ==
    ScenarioOver
    => /\ system_tasks[1].statistics.executions_count = 5
       /\ system_tasks[2].statistics.executions_count = 2
       /\ \A t \in Tasks : system_tasks[t].statistics.missed_deadlines = 0

\* C15 as amended: in scenario A every task is dispatched once per period,
\* at its release times 0, period, 2 * period, ...: whenever its polling
\* thread is between two dispatches with no step left to take at the present
\* time, a task has been dispatched now \div period + 1 times, and it has
\* never missed a deadline.  Run until
\* time 500 that is exactly 5 dispatches of A and exactly 3 of B.
C15_ScenarioADispatches ==
    /\ \A t \in Tasks : system_tasks[t].statistics.missed_deadlines = 0
    /\ \A t \in Tasks :
           (pc[t] \in {"poll", "sleep"} /\ ~Urgent(t))
           => system_tasks[t].statistics.executions_count =
                  now \div system_tasks[t].timing.period + 1
    /\ ScenarioOver
       => /\ system_tasks[1].statistics.executions_count = 5
          /\ system_tasks[2].statistics.executions_count = 3

\* The scenario has run to its end with 5 dispatches of A and 3 of B.
C15_Witness ==
    /\ ScenarioOver
    /\ system_tasks[1].statistics.executions_count = 5
    /\ system_tasks[2].statistics.executions_count = 3
    /\ system_tasks[2].next_release_time = 600

\* C21 as claimed: a long-running task does not block the calls of other
\* threads.  While the task function of a task is executing, no thread that
\* has called a synchronized method of that task is waiting for task_mutex.
C21_CallsDoNotWaitForClosure ==
    \A t \in Tasks :
        pc[t] = "closure" => ~(client.st = "blocked" /\ client.task = t)

\* C22 as claimed: sleep wakes up.  A task that sleep() has put to SLEEPING
\* and whose next_release_time has passed returns to READY, with no further
\* call from outside (unless a further sleep() moves its release time into
\* the future again).
C22_SleepWakesUp ==
    ( /\ system_tasks[1].current_state = "SLEEPING"
      /\ now >= system_tasks[1].next_release_time )
    ~> ( \/ system_tasks[1].current_state = "READY"
         \/ now < system_tasks[1].next_release_time )

\* C23 as claimed: statistics aggregates.  executions_count, the total, the
\* smallest and the largest execution time are taken over exactly the
\* dispatches whose task function returned: a step in which the task function
\* returns after running for d adds one to the count and d to the total and
\* folds d into the minimum and the maximum (which are d after the first
\* return), and every other step leaves the four as they are.
C23_StatisticsAggregate ==
    [][\A t \in Tasks :
          LET S == system_tasks[t].statistics
              d == now - system_tasks[t].execution_start_time
          IN IF ClosureReturns(t)
             THEN /\ system_tasks'[t].statistics.executions_count =
                         S.executions_count + 1
                  /\ system_tasks'[t].statistics.total_execution_time =
                         S.total_execution_time + d
                  /\ system_tasks'[t].statistics.max_execution_time =
                         IF S.executions_count = 0 \/ d > S.max_execution_time
                         THEN d ELSE S.max_execution_time
                  /\ system_tasks'[t].statistics.min_execution_time =
                         IF S.executions_count = 0 \/ d < S.min_execution_time
                         THEN d ELSE S.min_execution_time
             ELSE /\ system_tasks'[t].statistics.executions_count =
                         S.executions_count
                  /\ system_tasks'[t].statistics.total_execution_time =
                         S.total_execution_time
                  /\ system_tasks'[t].statistics.max_execution_time =
                         S.max_execution_time
                  /\ system_tasks'[t].statistics.min_execution_time =
                         S.min_execution_time]_vars

\* C24 as claimed: a snapshot of the statistics read by another thread is
\* never torn.  Of a task that is only dispatched, a snapshot taken after n
\* completed dispatches shows executions_count = n and context_switches = 2n,
\* or 2n + 1 while the next dispatch is RUNNING: both fields tell the same
\* number of completed dispatches.
C24_SnapshotNotTorn ==
    (client.st = "returned" /\ client.op = "getStatistics")
    => client.val.context_switches \div 2 = client.val.executions_count

\* C25 as claimed: dispatch idempotence.  A PERIODIC task that has been
\* dispatched twice in a row since it was created, its task function
\* returning both times, shows twice the same delta: executions_count 2,
\* context_switches 4, and missed_deadlines 0 or 2.
C25_SameDeltaTwice ==
    \A t \in Tasks :
        ( /\ ~NonPeriodic(t) /\ pc[t] = "poll"
          /\ system_tasks[t].statistics.executions_count = 2 )
        => /\ system_tasks[t].statistics.context_switches = 4
           /\ system_tasks[t].statistics.missed_deadlines \in {0, 2}

\* C25 as amended: every dispatch of a PERIODIC task whose task function
\* returns adds one to executions_count and two to context_switches, one
\* when the task function starts and one when it returns; it adds one to
\* missed_deadlines when it returns after the deadline_time of that dispatch
\* and nothing otherwise, whatever the dispatch before it added.
C25_DeltaOfEachDispatch ==
    [][\A t \in Tasks :
          ~NonPeriodic(t)
          => /\ Starts(t)
                    => /\ system_tasks'[t].statistics =
                              [system_tasks[t].statistics EXCEPT
                                  !.context_switches = @ + 1,
                                  !.last_execution = now]
             /\ ClosureReturns(t)
                    => /\ system_tasks'[t].statistics.executions_count =
                              system_tasks[t].statistics.executions_count + 1
                       /\ system_tasks'[t].statistics.context_switches =
                              system_tasks[t].statistics.context_switches + 1
                       /\ system_tasks'[t].statistics.missed_deadlines =
                              system_tasks[t].statistics.missed_deadlines
                              + (IF Late(t) THEN 1 ELSE 0)]_vars

\* Two dispatches in a row, the first late and the second in time.
C25_Witness ==
    \E t \in Tasks :
        /\ ~NonPeriodic(t) /\ pc[t] = "poll"
        /\ system_tasks[t].statistics.executions_count = 2
        /\ system_tasks[t].statistics.context_switches = 4
        /\ system_tasks[t].statistics.missed_deadlines = 1
        /\ ~Late(t)

\* C26 as claimed: task ids are unique and never reused.  Any two tasks that
\* exist at the same time, whenever and in whatever order they and the tasks
\* before them were created and destroyed, have different ids.
C26_TaskIdsUnique ==
    \A a, b \in Tasks :
        a # b => system_tasks[a].task_id # system_tasks[b].task_id

\* C27 as claimed: scenario D.  A step that adds to system_tasks a task whose
\* id is the id of a task already there is refused: it leaves system_tasks,
\* the set of its tasks and every field of them, as it is.
C27_DuplicateIdRefused ==
    [][( /\ next_task_id' # next_task_id
         /\ \E t \in Tasks : system_tasks[t].task_id = next_task_id )
       => system_tasks' = system_tasks]_vars

\* C28 as claimed: eligibility for every task kind.  A step that starts the
\* task function of a task, of whatever kind and after whatever sleep,
\* suspend and resume calls, is taken while the task is READY and its
\* next_release_time is not after now.
C28_StartsOnlyWhenEligible ==
    [][\A t \in Tasks : Starts(t) => Eligible(t)]_vars

\* Task a is selected before task b: lower priority value, then earlier
\* next_release_time, then smaller id.
SelectedBefore(a, b) ==
    LET A == system_tasks[a]
        B == system_tasks[b]
    IN \/ A.priority < B.priority
       \/ /\ A.priority = B.priority
          /\ A.next_release_time < B.next_release_time
       \/ /\ A.priority = B.priority
          /\ A.next_release_time = B.next_release_time
          /\ A.task_id < B.task_id

\* C29 as claimed: deterministic selection.  The task that a dispatch starts
\* is decided by the tasks and now alone: it is the eligible task that comes
\* first by priority, then by next_release_time, then by id, so that no task
\* starts while an eligible task comes before it in that order.
C29_DeterministicSelection ==
    [][\A a, b \in Tasks :
          (Eligible(a) /\ Eligible(b) /\ SelectedBefore(a, b))
          => ~Starts(b)]_vars

\* C30: the guards of suspend and resume.  A suspend() body that runs while
\* the state is RUNNING leaves the state RUNNING and the statistics as they
\* are.  A resume() body, called by the task function or by another thread,
\* makes a SUSPENDED task READY, and in every other state leaves the state,
\* next_release_time and the statistics as they are.
C30_SuspendResumeGuards ==
    [][\A t \in Tasks :
          LET T == system_tasks[t]
              U == system_tasks'[t]
          IN /\ (ClosureSuspend(t) /\ T.current_state = "RUNNING")
                => /\ U.current_state = "RUNNING"
                   /\ U.statistics = T.statistics
             /\ (ClosureResume(t) \/ CallResume(t))
                => IF T.current_state = "SUSPENDED"
                   THEN U.current_state = "READY"
                   ELSE /\ U.current_state = T.current_state
                        /\ U.next_release_time = T.next_release_time
                        /\ U.statistics = T.statistics]_vars

\* The task function has called suspend() in the first dispatch of the task:
\* the call has returned and the task is RUNNING as before, with the one
\* context switch of the dispatch.
C30_Witness ==
    \E t \in Tasks :
        /\ pc[t] = "closure"
        /\ reentered = Returned("suspend", t, TRUE)
        /\ system_tasks[t].current_state = "RUNNING"
        /\ system_tasks[t].statistics.context_switches = 1

\* The threads that are inside the task function of t.
InsideClosure(t) ==
    (IF pc[t] = "closure" THEN {"dispatcher"} ELSE {})
    \cup (IF client = Inside(t) THEN {"client"} ELSE {})

\* C31: per-task mutual exclusion.  While the process lives, at most one
\* thread is inside the task function of a task, the state of the task is
\* RUNNING exactly while a thread is inside it, and a step that leaves the
\* thread inside the task function leaves the state and the priority of the
\* task as they are.
C31_PerTaskMutualExclusion ==
    [][\A t \in Tasks :
          /\ alive =>
                /\ Cardinality(InsideClosure(t)) <= 1
                /\ system_tasks[t].current_state = "RUNNING"
                       <=> InsideClosure(t) # {}
          /\ (InsideClosure(t) # {} /\ InsideClosure(t)' = InsideClosure(t))
             => /\ system_tasks'[t].current_state = "RUNNING"
                /\ system_tasks'[t].priority = system_tasks[t].priority]_vars

\* The client thread is inside the task function of a task while the polling
\* thread of the task has found it ready and is about to call execute().
C31_Witness ==
    \E t \in Tasks :
        /\ client = Inside(t)
        /\ pc[t] = "execute"
        /\ system_tasks[t].current_state = "RUNNING"

\* C32: explicit terminate is permanent.  A terminate() call leaves enabled
\* false and delete_requested true, and from then on, whatever suspend,
\* resume, sleep, setPriority, setPeriod and execute calls follow, both flags
\* stay as they are, isReadyToRun() is false and no step starts the task
\* function.
C32_TerminateIsPermanent ==
    [][\A t \in Tasks :
          /\ CallTerminate(t)
             => /\ ~system_tasks'[t].enabled
                /\ system_tasks'[t].delete_requested
          /\ ~system_tasks[t].enabled
             => /\ system_tasks[t].delete_requested
                /\ ~isReadyToRun(system_tasks[t])
                /\ ~system_tasks'[t].enabled
                /\ system_tasks'[t].delete_requested
                /\ ~Starts(t)]_vars

\* After terminate() the task has been suspended and resumed: it is READY
\* again, and the polling thread goes on polling it.
C32_Witness ==
    \E t \in Tasks :
        /\ ~system_tasks[t].enabled
        /\ system_tasks[t].current_state = "READY"
        /\ client = Returned("resume", t, TRUE)
        /\ pc[t] = "poll"

\* C33 as claimed: getCPUUtilization terminates.  A call that found
\* task_mutex free returns a value and releases the lock: the calling thread
\* is never left waiting for a task_mutex that it holds itself.
C33_GetCPUUtilizationReturns ==
    \A t \in Tasks :
        ~(client.st = "blocked" /\ client.task = t /\ task_mutex[t] = "client")

\* C34 as claimed: emergency stop shuts the system down.  Once emergency_stop
\* is set, the task function of the system monitor and run() get through
\* shutdown(): neither thread is left waiting for a task_mutex that is never
\* released.
C34_EmergencyStopShutsDown ==
    emergency_stop => (reentered.st # "blocked" /\ client.st # "blocked")

\* Every file descriptor of the fd map names a registered device that is
\* OPENED, and every OPENED device has exactly one file descriptor.
FdRegistryConsistent ==
    LET D == device_driver
    IN /\ \A fd \in DOMAIN D.fd_to_device_map :
              /\ D.fd_to_device_map[fd] \in DOMAIN D.device_registry
              /\ D.device_registry[D.fd_to_device_map[fd]].state = "OPENED"
       /\ \A name \in DOMAIN D.device_registry :
              D.device_registry[name].state = "OPENED"
              => Cardinality({fd \in DOMAIN D.fd_to_device_map :
                                 D.fd_to_device_map[fd] = name}) = 1

\* C35 as claimed: the fd registry invariant.  After any sequence of calls
\* every file descriptor of the fd map names a registered device in state
\* OPENED, every OPENED device has exactly one file descriptor, and an
\* openDevice call that succeeds returns a file descriptor that no earlier
\* call has returned.
C35_FdRegistryInvariant ==
    [][/\ FdRegistryConsistent
       /\ \A name \in DeviceNames :
              (OpenDevice(name) /\ device_driver' # device_driver)
              => device_driver.next_file_descriptor
                     \notin device_driver.handed_out]_vars

\* This step ends closeDevice(fd) on the device name as the claim says.
ClosedBy(fd, name) ==
    /\ client' = Returned("closeDevice", fd, TRUE)
    /\ device_driver'.driver_mutex = "free"
    /\ device_driver'.device_registry[name].state = "INITIALIZED"
    /\ fd \notin DOMAIN device_driver'.fd_to_device_map
    /\ fd \notin device_driver'.device_memory
    /\ fd \notin device_driver'.irq_handlers
    /\ fd \notin DOMAIN device_driver'.irq_enabled

\* C36 as claimed: closeDevice completes.  A closeDevice call on a valid open
\* file descriptor, with or without an enabled IRQ, returns true, releases
\* driver_mutex, leaves the device INITIALIZED and removes the fd mapping,
\* the memory, the IRQ handler and the IRQ-enabled entry of the descriptor.
C36_CloseDeviceCompletes ==
    [][\A fd \in Ints :
          /\ ( /\ isValidFileDescriptor(device_driver, fd)
               /\ ~closeDeviceDisables(device_driver, fd)
               /\ CloseDevice(fd) )
             => ClosedBy(fd, device_driver.fd_to_device_map[fd])
          /\ (client = CloseRelock(fd) /\ client' # client)
             => ClosedBy(fd, device_driver.fd_to_device_map[fd])]_vars

\* C37 as claimed: the FIFOs of the UART stay within their configured sizes.
\* In every state that transmit, receive, configure, clearTxFifo, clearRxFifo
\* and the transmission thread reach, in loopback mode and after a configure
\* call that lowers the sizes too, the TX FIFO holds at most
\* config.tx_fifo_size bytes and the RX FIFO at most config.rx_fifo_size.
C37_FifoBounds ==
    /\ Len(debug_uart.tx_fifo) <= debug_uart.config.tx_fifo_size
    /\ Len(debug_uart.rx_fifo) <= debug_uart.config.rx_fifo_size

\* The half of C37 about the TX FIFO.
TxFifoBound == Len(debug_uart.tx_fifo) <= debug_uart.config.tx_fifo_size

\* A thread at position p of its loop goes on only with uart_mutex.
NeedsLock(p) == p \in {"lock", "waiting", "relock"}

\* cleanup() waits in a join, with uart_mutex, for a thread that waits for
\* uart_mutex.
CleanupStuck ==
    /\ client.st = "join"
    /\ debug_uart.uart_mutex = "client"
    /\ \/ client = Joining("tx_thread") /\ NeedsLock(debug_uart.tx_pc)
       \/ NeedsLock(debug_uart.rx_pc)

\* C38 as claimed: cleanup() of an initialized UART terminates.  Wherever
\* the transmission thread is when cleanup() is called (waiting for data,
\* sleeping for the time of the frame, taking the lock again), cleanup() is
\* never in a state in which it cannot join both threads and return with
\* initialized false.
C38_CleanupTerminates == ~CleanupStuck

\* cleanup() has returned for a UART that was initialized.
CleanupReturned ==
    /\ client = Returned("cleanup", 0, TRUE)
    /\ debug_uart.tx_pc = "joined"

====
